---------------------------- MODULE Spec2Model ----------------------------
(***************************************************************************)
(* A model of the RDT repository: the packet codec (protocol.py), the      *)
(* Selective Repeat session (rdt.py), the way client.py and server.py      *)
(* drive a session, and the datagram channel between two sessions with the *)
(* impairments of emulator.py.                                             *)
(*                                                                         *)
(* Bytes are the integers 0..255 and a byte string is a sequence of them.  *)
(* TLC's integers are 32-bit signed, so an unsigned 32-bit field that is   *)
(* only compared for equality (the checksum) is kept as its four           *)
(* big-endian bytes, and an unsigned 32-bit number v >= 2^31 (a seq_num    *)
(* read off the wire) is carried as v - 2^32, the same 32 bits.            *)
(***************************************************************************)
EXTENDS Integers, Sequences, FiniteSets, Bags, TLC

VARIABLES
  next_seq,    \* [Peer -> Nat]          RDTSession.next_seq
  sent,        \* [Peer -> [seq -> [pkt_bytes, due]]]   RDTSession.sent; due: the timer ran out
  acked,       \* [Peer -> SUBSET Nat]   RDTSession.acked
  expected,    \* [Peer -> Nat]          RDTSession.expected
  recv_buf,    \* [Peer -> [seq -> payload]]            RDTSession.recv_buf
  app_queue,   \* [Peer -> Seq(payload)] RDTSession.app_queue
  snd,         \* [Peer -> record]       the task inside send(): its locals and position
  rtx,         \* [Peer -> record]       the task inside _retx_loop(): what is left of to_retx,
               \*                        the datagram it is about to send, _running, thread alive
  net,         \* [Peer -> SUBSET bytes] datagrams in flight towards each peer's socket
  app,         \* [Peer -> record]       what the application passed to send() and got back;
               \*                        the server's PeerState: inbuf, mode, filebuf, files stored
  log,         \* [Peer -> record]       the session's printed events: DELIVER, and the seqs of TX
  inj,         \* a test of handle_raw: the datagrams fed and the datagrams it sent (bags);
               \* the last datagram fed and what came of it; what the channel counted
  codec,       \* one run of the codec: packet in, wire bytes, packet out
  emu          \* emulator_loop: now, rlist, last_client, reorder_slot; the sendto calls
               \* of its last step and what that step read

vars == <<next_seq, sent, acked, expected, recv_buf, app_queue, snd, rtx, net, app, log, inj, codec, emu>>

sessVars == <<next_seq, sent, acked, expected, recv_buf, app_queue>>

-----------------------------------------------------------------------------
(* protocol.py: constants                                                   *)

HEADER_SIZE == 11

MAX_PAYLOAD == 32

FLAG_ACK == 1

\* emulator.py: the timeout of select, 0.1 s, in ticks of 50 ms
SelectTicks == 2

\* emulator.py: random.uniform(0.05, 0.3), the ends in ticks of 50 ms
MinDelay == 1
MaxDelay == 6

\* rdt.py: the retransmission timeout, in seconds

DEFAULT_TIMEOUT == 2

-----------------------------------------------------------------------------
(* Bounds of the model                                                      *)

\* the longest payload the codec runs enumerate byte by byte
MaxCodecLen == 2

\* the window the sessions are constructed with (RDTSession(window=...))
Window == 2

\* the number of chunks all send() calls of one run add up to
MaxChunks == 3

\* the number of datagrams a test feeds to handle_raw
MaxInject == 5

\* the seqs a test feeds are 0..MaxInjSeq
MaxInjSeq == 2

\* the number of datagrams handed to the handle_raw of a session that is sending
MaxFeed == 3

\* the file of a PUT has FileChunks full chunks
FileChunks == 3

\* the emulator's clock stops after MaxEmuTime ticks
MaxEmuTime == 8

\* sendto raises at most MaxFail times

MaxFail == 2

\* a run with a clock lasts MaxTime seconds

MaxTime == 4

-----------------------------------------------------------------------------
(* Byte arithmetic                                                          *)

Byte == 0..255

RECURSIVE XorN(_, _, _)
\* the exclusive or of the low n bits of a and b
XorN(a, b, n) ==
  IF n = 0 THEN 0 ELSE ((a + b) % 2) + 2 * XorN(a \div 2, b \div 2, n - 1)

Xor4 == [a \in 0..15 |-> [b \in 0..15 |-> XorN(a, b, 4)]]

Xor8(a, b) == 16 * Xor4[a \div 16][b \div 16] + Xor4[a % 16][b % 16]

Xor16(a, b) == 256 * Xor8(a \div 256, b \div 256) + Xor8(a % 256, b % 256)

\* struct.pack("!I", v): four big-endian bytes; v < 0 stands for v + 2^32
U32Bytes(v) ==
  LET w == IF v >= 0 THEN v ELSE -(v + 1)
      b == <<w \div 16777216, (w \div 65536) % 256, (w \div 256) % 256, w % 256>>
  IN  IF v >= 0 THEN b ELSE <<255 - b[1], 255 - b[2], 255 - b[3], 255 - b[4]>>

\* struct.unpack("!I", b): the number of four big-endian bytes
U32(b) ==
  IF b[1] < 128
  THEN ((b[1] * 256 + b[2]) * 256 + b[3]) * 256 + b[4]
  ELSE -((((255 - b[1]) * 256 + (255 - b[2])) * 256 + (255 - b[3])) * 256 + (255 - b[4])) - 1

\* struct.pack("!H", v)
U16Bytes(v) == <<v \div 256, v % 256>>

U16(b) == b[1] * 256 + b[2]

-----------------------------------------------------------------------------
(* zlib.crc32: CRC-32 (IEEE 802.3), reflected, polynomial 0xEDB88320,       *)
(* initial register and final xor 0xFFFFFFFF, one table lookup per byte.    *)
(* The register is <<b3, b2, b1, b0>>, most significant byte first.         *)

\* 0xEDB88320, high and low 16 bits
PolyHi == 60856

PolyLo == 33568

RECURSIVE CrcBit(_, _, _)
\* k shift-and-xor steps on the register hi:lo
CrcBit(hi, lo, k) ==
  IF k = 0 THEN <<hi \div 256, hi % 256, lo \div 256, lo % 256>>
  ELSE LET h == hi \div 2
           l == (lo \div 2) + (hi % 2) * 32768
       IN  IF lo % 2 = 1 THEN CrcBit(Xor16(h, PolyHi), Xor16(l, PolyLo), k - 1)
           ELSE CrcBit(h, l, k - 1)

CrcTable == [n \in Byte |-> CrcBit(0, n, 8)]

\* the one value of a set of one value: The({e(x) : x \in {v}}) is e with x = v,
\* v worked out once
The(S) == CHOOSE x \in S : TRUE

\* one byte: reg = table[(reg ^ b) & 0xFF] ^ (reg >> 8)
CrcStep(c, b) ==
  The({<<t[1], Xor8(t[2], c[1]), Xor8(t[3], c[2]), Xor8(t[4], c[3])>> :
         t \in {CrcTable[Xor8(c[4], b)]}})

\* the register after the bytes of buf, from 0xFFFFFFFF
CrcRun(buf) ==
  LET go[i \in 0..Len(buf), c \in Seq(Byte)] ==
        IF i = Len(buf) THEN c ELSE go[i + 1, CrcStep(c, buf[i + 1])]
  IN  go[0, <<255, 255, 255, 255>>]

\* zlib.crc32(buf), as four big-endian bytes
Crc32(buf) ==
  The({<<255 - r[1], 255 - r[2], 255 - r[3], 255 - r[4]>> :
         r \in {CrcRun(b) : b \in {buf}}})

-----------------------------------------------------------------------------
(* protocol.py: Packet                                                      *)

\* Packet.__init__
Packet(seq_num, ack, payload) ==
  [seq_num  |-> seq_num,
   flags    |-> IF ack THEN FLAG_ACK ELSE 0,
   payload  |-> payload,
   length   |-> Len(payload),
   checksum |-> <<0, 0, 0, 0>>]

\* struct.pack("!I B H", seq, flags, length)
HeadWo(seq, flags, length) == U32Bytes(seq) \o <<flags>> \o U16Bytes(length)

\* a variant of Pack that leaves the length field out of the checksum
PackCrcSkipsLength(pkt) ==
  U32Bytes(pkt.seq_num) \o <<pkt.flags>> \o U16Bytes(pkt.length)
    \o Crc32(U32Bytes(pkt.seq_num) \o <<pkt.flags>> \o pkt.payload) \o pkt.payload

\* Packet.pack
Pack(pkt) ==
  The({head_wo \o Crc32(head_wo \o pkt.payload) \o pkt.payload :
         head_wo \in {HeadWo(pkt.seq_num, pkt.flags, pkt.length)}})

\* buf[a:b] of Python, 0-based and clipped to the buffer
Slice(buf, a, b) ==
  LET hi == IF b < Len(buf) THEN b ELSE Len(buf)
  IN  IF a >= hi THEN <<>> ELSE SubSeq(buf, a + 1, hi)

\* a variant of Unpack that compares only the low byte of the checksum
UnpackWeakCompare(buf) ==
  IF Len(buf) < HEADER_SIZE
  THEN [raised |-> TRUE]
  ELSE LET seq      == U32(Slice(buf, 0, 4))
           flags    == buf[5]
           length   == U16(Slice(buf, 5, 7))
           checksum == Slice(buf, 7, 11)
           payload  == Slice(buf, HEADER_SIZE, HEADER_SIZE + length)
       IN  [raised |-> FALSE,
            pkt    |-> [Packet(seq, flags % 2 = 1, payload) EXCEPT !.checksum = checksum],
            good   |-> Crc32(HeadWo(seq, flags, length) \o payload)[4] = checksum[4]]

\* Packet.unpack: raised = the ValueError of a buffer shorter than the header
Unpack(buf) ==
  IF Len(buf) < HEADER_SIZE
  THEN [raised |-> TRUE]
  ELSE LET seq      == U32(Slice(buf, 0, 4))
           flags    == buf[5]
           length   == U16(Slice(buf, 5, 7))
           checksum == Slice(buf, 7, 11)
           payload  == Slice(buf, HEADER_SIZE, HEADER_SIZE + length)
           head_wo  == HeadWo(seq, flags, length)
       IN  [raised |-> FALSE,
            pkt    |-> [Packet(seq, flags % 2 = 1, payload) EXCEPT !.checksum = checksum],
            good   |-> Crc32(head_wo \o payload) = checksum]

\* emulator.py corrupt, with the random index i (0-based) made explicit
corrupt(data, i) ==
  IF data = <<>> THEN data
  ELSE [data EXCEPT ![i + 1] = Xor8(data[i + 1], 255)]

-----------------------------------------------------------------------------
(* What the applications send, and the datagrams that can then be in flight *)

\* byte k of the stream the application sends (distinct over the first 251)
StreamByte(k) == k % 251

\* the lengths of the data given to one send() call
SendLens == {0, 1, MAX_PAYLOAD + 1}

\* the chunks a send() of n bytes makes
ChunksOf(n) == (n + MAX_PAYLOAD - 1) \div MAX_PAYLOAD

\* the byte positions the channel flips: in seq, in length, in the payload
FlipAt == {0, 6, HEADER_SIZE}

\* b"GET f\n", the command of client.py for the file f
GetCommand == <<71, 69, 84, 32, 102, 10>>

\* f"PUT {os.path.basename(args.filename)}\n".encode() for the file "f"
PutCommand == <<80, 85, 84, 32, 102, 10>>

\* the payloads the sessions of a run send: the pieces of the stream, and the command
SessionPayloads ==
  {[i \in 1..n |-> StreamByte(o + i)] : o \in 0..(MaxChunks * MAX_PAYLOAD), n \in {1, MAX_PAYLOAD}}
  \cup {GetCommand, PutCommand}

\* Packet(seq, ack, payload).pack() of the DATA and ACK packets of a run, worked out once
Packed ==
  [k \in ((0..(MaxChunks - 1)) \X {FALSE} \X SessionPayloads)
          \cup ((0..(MaxChunks - 1)) \X {TRUE} \X {<<>>})
     |-> Pack(Packet(k[1], k[2], k[3]))]

\* Packet(seq, ack, payload).pack(), looked up where it was worked out
Wire(seq, ack, payload) ==
  IF <<seq, ack, payload>> \in DOMAIN Packed
  THEN Packed[<<seq, ack, payload>>]
  ELSE Pack(Packet(seq, ack, payload))

\* the DATA and ACK datagrams the sessions of a run send
SessionDatagrams == {Packed[k] : k \in DOMAIN Packed}

\* Packet.unpack of those datagrams, whole or with one byte flipped, worked out once
Unpacked ==
  [raw \in SessionDatagrams
          \cup UNION {{corrupt(d, i) : i \in {j \in FlipAt : j < Len(d)}} : d \in SessionDatagrams}
     |-> Unpack(raw)]

\* Packet.unpack(raw), looked up where it was worked out
Decode(raw) == IF raw \in DOMAIN Unpacked THEN Unpacked[raw] ELSE Unpack(raw)

-----------------------------------------------------------------------------
(* rdt.py: RDTSession, one per peer.  "c" is the client's session (its     *)
(* datagrams go to the server through the emulator) and "s" the session    *)
(* the server keeps for that client.                                       *)

Peer == {"c", "s"}

\* self.peer: where a session's sendto goes
Other(p) == IF p = "c" THEN "s" ELSE "c"

\* b"".join(chunks)
RECURSIVE Join(_)
Join(chunks) == IF chunks = <<>> THEN <<>> ELSE Head(chunks) \o Join(Tail(chunks))

\* a dict without one key
Without(d, k) == [x \in DOMAIN d \ {k} |-> d[x]]

\* a dict with d[k] = v
With(d, k, v) == [x \in DOMAIN d \cup {k} |-> IF x = k THEN v ELSE d[x]]

\* a variant of OnAck that notes every seq it is told of as acknowledged
OnAckAny(p, ack_seq) ==
  [sent |-> Without(sent[p], ack_seq), acked |-> acked[p] \cup {ack_seq}]

\* a variant of OnAck that leaves the acknowledged entry in sent
OnAckKeepsSent(p, ack_seq) ==
  IF ack_seq \in DOMAIN sent[p]
  THEN [sent |-> sent[p], acked |-> acked[p] \cup {ack_seq}]
  ELSE [sent |-> sent[p], acked |-> acked[p]]

\* a variant of OnAck that drops the entry without noting the seq in acked
OnAckForgets(p, ack_seq) ==
  IF ack_seq \in DOMAIN sent[p]
  THEN [sent |-> Without(sent[p], ack_seq), acked |-> acked[p]]
  ELSE [sent |-> sent[p], acked |-> acked[p]]

\* RDTSession._on_ack: what it leaves in sent and acked
OnAck(p, ack_seq) ==
  IF ack_seq \in DOMAIN sent[p]
  THEN [sent |-> Without(sent[p], ack_seq), acked |-> acked[p] \cup {ack_seq}]
  ELSE [sent |-> sent[p], acked |-> acked[p]]

\* a variant of Drain that is an "if", not a "while": it delivers one chunk at most
DrainOnce(exp, buf, q, dl) ==
  IF exp \in DOMAIN buf
  THEN [expected |-> exp + 1, recv_buf |-> Without(buf, exp), app_queue |-> Append(q, buf[exp]),
        deliver |-> Append(dl, [seq |-> exp, piece |-> buf[exp]])]
  ELSE [expected |-> exp, recv_buf |-> buf, app_queue |-> q, deliver |-> dl]

RECURSIVE DrainKeepsBuffered(_, _, _, _)
\* a variant of Drain that delivers the buffered chunks and leaves them in recv_buf
DrainKeepsBuffered(exp, buf, q, dl) ==
  IF exp \in DOMAIN buf
  THEN DrainKeepsBuffered(exp + 1, buf, Append(q, buf[exp]),
                          Append(dl, [seq |-> exp, piece |-> buf[exp]]))
  ELSE [expected |-> exp, recv_buf |-> buf, app_queue |-> q, deliver |-> dl]

RECURSIVE Drain(_, _, _, _)

\* the loop "while self.expected in self.recv_buf" of _on_data; dl is the DELIVER log
Drain(exp, buf, q, dl) ==
  IF exp \in DOMAIN buf
  THEN Drain(exp + 1, Without(buf, exp), Append(q, buf[exp]),
             Append(dl, [seq |-> exp, piece |-> buf[exp]]))
  ELSE [expected |-> exp, recv_buf |-> buf, app_queue |-> q, deliver |-> dl]

\* RDTSession._send_ack: the datagram it sends
AckBytes(seq) == Wire(seq, TRUE, <<>>)

\* a variant of OnData that drains from the seq that arrived, not from expected
OnDataFromArrived(p, seq, payload) ==
  IF seq < expected[p] \/ seq \in DOMAIN recv_buf[p]
  THEN [expected |-> expected[p], recv_buf |-> recv_buf[p],
        app_queue |-> app_queue[p], deliver |-> log[p].deliver]
  ELSE Drain(seq, With(recv_buf[p], seq, payload), app_queue[p], log[p].deliver)

\* a variant of OnData without the test for a seq already buffered
OnDataLastWins(p, seq, payload) ==
  IF seq < expected[p]
  THEN [expected |-> expected[p], recv_buf |-> recv_buf[p],
        app_queue |-> app_queue[p], deliver |-> log[p].deliver]
  ELSE Drain(expected[p], With(recv_buf[p], seq, payload), app_queue[p], log[p].deliver)

\* RDTSession._on_data after the ACK: what it leaves in expected, recv_buf, app_queue
OnData(p, seq, payload) ==
  IF seq < expected[p] \/ seq \in DOMAIN recv_buf[p]
  THEN [expected |-> expected[p], recv_buf |-> recv_buf[p],
        app_queue |-> app_queue[p], deliver |-> log[p].deliver]
  ELSE Drain(expected[p], With(recv_buf[p], seq, payload), app_queue[p], log[p].deliver)

\* the session as it is, as the result of a handler that changes nothing
Same(p) ==
  [sent |-> sent[p], acked |-> acked[p], expected |-> expected[p],
   recv_buf |-> recv_buf[p], app_queue |-> app_queue[p],
   deliver |-> log[p].deliver, out |-> <<>>]

\* a variant of HandleRaw that does not look at checksum_ok
HandleRawNoChecksum(p, raw) ==
  LET u == Decode(raw)
  IN  IF u.raised THEN Same(p)
      ELSE IF u.pkt.flags % 2 = 1
      THEN LET a == OnAck(p, u.pkt.seq_num)
           IN  [Same(p) EXCEPT !.sent = a.sent, !.acked = a.acked]
      ELSE LET d == OnData(p, u.pkt.seq_num, u.pkt.payload)
           IN  [Same(p) EXCEPT !.expected = d.expected, !.recv_buf = d.recv_buf,
                               !.app_queue = d.app_queue, !.deliver = d.deliver,
                               !.out = <<AckBytes(u.pkt.seq_num)>>]

\* a variant of HandleRaw that acknowledges only a DATA packet it had not seen
HandleRawAckNew(p, raw) ==
  LET u == Decode(raw)
  IN  IF u.raised THEN Same(p)
      ELSE IF ~u.good THEN Same(p)
      ELSE IF u.pkt.flags % 2 = 1
      THEN LET a == OnAck(p, u.pkt.seq_num)
           IN  [Same(p) EXCEPT !.sent = a.sent, !.acked = a.acked]
      ELSE LET d == OnData(p, u.pkt.seq_num, u.pkt.payload)
           IN  [Same(p) EXCEPT !.expected = d.expected, !.recv_buf = d.recv_buf,
                               !.app_queue = d.app_queue, !.deliver = d.deliver,
                               !.out = IF u.pkt.seq_num < expected[p]
                                          \/ u.pkt.seq_num \in DOMAIN recv_buf[p]
                                       THEN <<>> ELSE <<AckBytes(u.pkt.seq_num)>>]

\* a variant of HandleRaw that acknowledges a DATA header before it looks at checksum_ok
HandleRawAckFirst(p, raw) ==
  LET u == Decode(raw)
  IN  IF u.raised THEN Same(p)
      ELSE IF ~u.good
      THEN [Same(p) EXCEPT !.out = IF u.pkt.flags % 2 = 1 THEN <<>>
                                   ELSE <<AckBytes(u.pkt.seq_num)>>]
      ELSE IF u.pkt.flags % 2 = 1
      THEN LET a == OnAck(p, u.pkt.seq_num)
           IN  [Same(p) EXCEPT !.sent = a.sent, !.acked = a.acked]
      ELSE LET d == OnData(p, u.pkt.seq_num, u.pkt.payload)
           IN  [Same(p) EXCEPT !.expected = d.expected, !.recv_buf = d.recv_buf,
                               !.app_queue = d.app_queue, !.deliver = d.deliver,
                               !.out = <<AckBytes(u.pkt.seq_num)>>]

\* RDTSession.handle_raw: the session after it, and the datagrams it sent (out)
HandleRaw(p, raw) ==
  LET u == Decode(raw)
  IN  IF u.raised THEN Same(p)
      ELSE IF ~u.good THEN Same(p)
      ELSE IF u.pkt.flags % 2 = 1
      THEN LET a == OnAck(p, u.pkt.seq_num)
           IN  [Same(p) EXCEPT !.sent = a.sent, !.acked = a.acked]
      ELSE LET d == OnData(p, u.pkt.seq_num, u.pkt.payload)
           IN  [Same(p) EXCEPT !.expected = d.expected, !.recv_buf = d.recv_buf,
                               !.app_queue = d.app_queue, !.deliver = d.deliver,
                               !.out = <<AckBytes(u.pkt.seq_num)>>]

\* the set of the datagrams of a sequence
Range(f) == {f[i] : i \in DOMAIN f}

\* session p takes the result r of handle_raw; its datagrams leave for the peer,
\* after `rest`, what stays in flight towards p
Ingest(p, r, rest) ==
  /\ sent' = [sent EXCEPT ![p] = r.sent]
  /\ acked' = [acked EXCEPT ![p] = r.acked]
  /\ expected' = [expected EXCEPT ![p] = r.expected]
  /\ recv_buf' = [recv_buf EXCEPT ![p] = r.recv_buf]
  /\ app_queue' = [app_queue EXCEPT ![p] = r.app_queue]
  /\ log' = [log EXCEPT ![p].deliver = r.deliver]
  /\ net' = [net EXCEPT ![p] = rest, ![Other(p)] = @ \cup Range(r.out)]
  /\ UNCHANGED next_seq

\* a variant of RecvAvailable that returns the chunks and leaves them queued
RecvAvailablePeeks(p) ==
  /\ Len(app[p].got) < 2 * MAX_PAYLOAD
  /\ app' = [app EXCEPT ![p].got = @ \o Join(app_queue[p])]
  /\ UNCHANGED <<sessVars, snd, rtx, net, log, inj, codec, emu>>

\* RDTSession.recv_available, called by the application of p
RecvAvailable(p) ==

  /\ app' = [app EXCEPT ![p].got = @ \o Join(app_queue[p])]
  /\ app_queue' = [app_queue EXCEPT ![p] = <<>>]
  /\ UNCHANGED <<next_seq, sent, acked, expected, recv_buf, snd, rtx, net, log, inj, codec, emu>>

-----------------------------------------------------------------------------
(* The initial state: RDTSession.__init__ for both peers, nothing in flight *)

Init ==
  /\ next_seq = [p \in Peer |-> 0]
  /\ sent = [p \in Peer |-> <<>>]
  /\ acked = [p \in Peer |-> {}]
  /\ expected = [p \in Peer |-> 0]
  /\ recv_buf = [p \in Peer |-> <<>>]
  /\ app_queue = [p \in Peer |-> <<>>]
  /\ snd = [p \in Peer |-> [pc |-> "idle", data |-> <<>>, offset |-> 0, seq |-> 0, pkt_bytes |-> <<>>]]
  /\ rtx = [p \in Peer |-> [to_retx |-> <<>>, hold |-> <<>>, running |-> TRUE, alive |-> TRUE]]
  /\ net = [p \in Peer |-> {}]
  /\ app = [p \in Peer |-> [passed |-> <<>>, got |-> <<>>, inbuf |-> <<>>,
                            mode |-> "None", filebuf |-> <<>>, stored |-> <<>>]]
  /\ log = [p \in Peer |-> [deliver |-> <<>>, tx |-> {}]]
  /\ inj = [fed |-> EmptyBag, acks |-> EmptyBag, ooo |-> FALSE,
            n |-> 0, last |-> <<>>, out |-> <<>>, raised |-> FALSE,
            data_rx |-> 0, ack_tx |-> 0, ack_rx |-> 0, dropped |-> {}, late |-> EmptyBag,
            now |-> 0, age |-> <<>>, since |-> <<>>,
            errs |-> 0, tx_err |-> {}, retx_err |-> {},
            task |-> [pc |-> "new"]]


  /\ codec = [stage |-> "new"]
  /\ emu = [now |-> 0, rlist |-> <<>>, last_client |-> "None", reorder_slot |-> <<>>,
            calls |-> <<>>, rd |-> [kind |-> "none"],
            seen |-> [any |-> "None", full |-> "None"]]


-----------------------------------------------------------------------------
(* rdt.py: the task inside send(), one chunk at a time                      *)

\* the in-flight count of the window wait: len([s for s in self.sent if s not in self.acked])
Inflight(p) == Cardinality({q \in DOMAIN sent[p] : q \notin acked[p]})

\* a window wait that admits a chunk when the window is just full
WindowOpenOffByOne(p) == Inflight(p) <= Window

\* "if inflight < self.window"
WindowOpen(p) == Inflight(p) < Window

\* send(data) is called: offset = 0; "while offset < len(data)" ends at once for b""
SendCall(p, data) ==
  /\ snd[p].pc = "idle"
  /\ snd' = [snd EXCEPT ![p] = [pc |-> IF Len(data) > 0 THEN "wait" ELSE "idle",
                                data |-> IF Len(data) > 0 THEN data ELSE <<>>,
                                offset |-> 0, seq |-> 0, pkt_bytes |-> <<>>]]
  /\ app' = [app EXCEPT ![p].passed = @ \o data]
  /\ UNCHANGED <<sessVars, rtx, net, log, inj, codec, emu>>

\* a variant of Chunk that takes all the bytes left
ChunkRest(p) == Slice(snd[p].data, snd[p].offset, Len(snd[p].data))

\* chunk = data[offset: offset + MAX_PAYLOAD]
Chunk(p) ==
 Slice(snd[p].data, snd[p].offset, snd[p].offset + MAX_PAYLOAD)

\* one turn of the window wait.  Under the lock, with the window open: seq =
\* self.next_seq; self.next_seq += 1; break.  Then pkt_bytes = Packet(seq, ack=False,
\* payload=chunk).pack() and self.sock.sendto(pkt_bytes, self.peer).  With the window
\* full: sleep and look again.
SendWait(p) ==
  /\ snd[p].pc = "wait"
  /\ IF WindowOpen(p)
     THEN \E pkt_bytes \in {Wire(next_seq[p], FALSE, Chunk(p))} :
            /\ snd' = [snd EXCEPT ![p].seq = next_seq[p], ![p].pkt_bytes = pkt_bytes,
                                  ![p].pc = "record"]
            /\ next_seq' = [next_seq EXCEPT ![p] = @ + 1]
            /\ net' = [net EXCEPT ![Other(p)] = @ \cup {pkt_bytes}]
            /\ log' = [log EXCEPT ![p].tx = @ \cup {next_seq[p]}]
     ELSE UNCHANGED <<snd, next_seq, net, log>>
  /\ UNCHANGED <<sent, acked, expected, recv_buf, app_queue, rtx, app, inj, codec, emu>>

\* what send() holds after a chunk: offset += len(chunk) and the loop test; its
\* locals go when it returns
SendAfter(p) ==
  IF snd[p].offset + Len(Chunk(p)) < Len(snd[p].data)
  THEN [snd[p] EXCEPT !.offset = @ + Len(Chunk(p)), !.pc = "wait", !.seq = 0, !.pkt_bytes = <<>>]
  ELSE [pc |-> "idle", data |-> <<>>, offset |-> 0, seq |-> 0, pkt_bytes |-> <<>>]

\* under the lock: self.sent[seq] = (pkt_bytes, now()); then offset += len(chunk),
\* the SEND_GAP sleep, and the loop test
SendRecord(p) ==
  /\ snd[p].pc = "record"
  /\ sent' = [sent EXCEPT ![p] = With(@, snd[p].seq, [pkt_bytes |-> snd[p].pkt_bytes, due |-> FALSE])]
  /\ snd' = [snd EXCEPT ![p] = SendAfter(p)]
  /\ UNCHANGED <<next_seq, acked, expected, recv_buf, app_queue, rtx, net, app, log, inj, codec, emu>>

-----------------------------------------------------------------------------
(* rdt.py: the task inside _retx_loop()                                     *)

RECURSIVE Ascending(_)
\* the seqs of a set in increasing order (the order sent was filled in)
Ascending(S) ==
  IF S = {} THEN <<>>
  ELSE LET m == CHOOSE x \in S : \A y \in S : x <= y
       IN  <<m>> \o Ascending(S \ {m})

\* self.timeout (DEFAULT_TIMEOUT) seconds pass: for every entry sent has by now,
\* now() - last_sent >= self.timeout holds from here on (due), until it is sent again
Tick ==
  /\ \E p \in Peer : \E q \in DOMAIN sent[p] : ~sent[p][q].due
  /\ sent' = [p \in Peer |-> [q \in DOMAIN sent[p] |-> [sent[p][q] EXCEPT !.due = TRUE]]]
  /\ UNCHANGED <<next_seq, acked, expected, recv_buf, app_queue, snd, rtx, net, app, log, inj, codec, emu>>

\* a variant of RetxScan that finds no timer run out
RetxScanNothing(p) ==
  /\ rtx[p].to_retx = <<>>
  /\ UNCHANGED vars

\* a variant of RetxScan whose loop is "while True"
RetxScanForEver(p) ==
  /\ rtx[p].alive
  /\ rtx[p].to_retx = <<>>
  /\ rtx[p].hold = <<>>
  /\ LET due == {q \in DOMAIN sent[p] : q \notin acked[p] /\ sent[p][q].due}
     IN  rtx' = [rtx EXCEPT ![p].to_retx = Ascending(due)]
  /\ UNCHANGED <<sessVars, snd, net, app, log, inj, codec, emu>>

\* a variant of RetxScan that takes every unacknowledged seq, timer run out or not
RetxScanAll(p) ==
  /\ rtx[p].alive
  /\ rtx[p].to_retx = <<>>
  /\ rtx[p].hold = <<>>
  /\ rtx' = [rtx EXCEPT ![p].to_retx = Ascending({q \in DOMAIN sent[p] : q \notin acked[p]})]
  /\ UNCHANGED <<sessVars, snd, net, app, log, inj, codec, emu>>

\* the top of "while self._running": with the flag down the loop, and the thread,
\* end; else the sweep under the lock: to_retx = the seqs of sent, not acked, whose
\* timer ran out
RetxScan(p) ==
  /\ rtx[p].alive
  /\ rtx[p].to_retx = <<>>
  /\ rtx[p].hold = <<>>
  /\ IF ~rtx[p].running
     THEN rtx' = [rtx EXCEPT ![p].alive = FALSE]
     ELSE LET due == {q \in DOMAIN sent[p] : q \notin acked[p] /\ sent[p][q].due}
          IN  rtx' = [rtx EXCEPT ![p].to_retx = Ascending(due)]
  /\ UNCHANGED <<sessVars, snd, net, app, log, inj, codec, emu>>

\* one turn of "for seq in to_retx".  Under the lock: rec = self.sent.get(seq); if it
\* is gone (acknowledged since the sweep) skip it, else take its bytes and restart
\* its timer.  Then, outside the lock, sendto(pkt_bytes): the datagram is in flight
\* from here on, whatever the other tasks do meanwhile.
RetxOne(p) ==
  /\ rtx[p].to_retx # <<>>
  /\ rtx[p].hold = <<>>
  /\ LET seq == Head(rtx[p].to_retx)
     IN  IF seq \in DOMAIN sent[p]
         THEN /\ sent' = [sent EXCEPT ![p][seq].due = FALSE]
              /\ net' = [net EXCEPT ![Other(p)] = @ \cup {sent[p][seq].pkt_bytes}]
         ELSE UNCHANGED <<sent, net>>
  /\ rtx' = [rtx EXCEPT ![p].to_retx = Tail(@)]
  /\ UNCHANGED <<next_seq, acked, expected, recv_buf, app_queue, snd, app, log, inj, codec, emu>>

-----------------------------------------------------------------------------
(* The channel between the two sockets, with what emulator.py does to a     *)
(* datagram: it forwards it, drops it, flips one byte of it, sends it       *)
(* twice, or holds it back so that later ones overtake it.  Datagrams in    *)
(* flight form a set, taken from in any order.                              *)

\* a datagram reaches p: its reader calls handle_raw(raw)
Deliver(p, raw) ==
  /\ raw \in net[p]
  /\ \E r \in {HandleRaw(p, raw)} : Ingest(p, r, net[p] \ {raw})
  /\ UNCHANGED <<snd, rtx, app, inj, codec, emu>>

\* the emulator sent a second copy: p handles raw and one copy stays in flight
DeliverDup(p, raw) ==
  /\ raw \in net[p]
  /\ \E r \in {HandleRaw(p, raw)} : Ingest(p, r, net[p])
  /\ UNCHANGED <<snd, rtx, app, inj, codec, emu>>

\* the emulator dropped the datagram
Lose(p, raw) ==
  /\ raw \in net[p]
  /\ net' = [net EXCEPT ![p] = @ \ {raw}]
  /\ UNCHANGED <<sessVars, snd, rtx, app, log, inj, codec, emu>>

\* the emulator flipped byte i of the datagram before p got it
DeliverCorrupt(p, raw, i) ==
  /\ raw \in net[p]
  /\ i < Len(raw)
  /\ \E r \in {HandleRaw(p, corrupt(raw, i))} : Ingest(p, r, net[p] \ {raw})
  /\ UNCHANGED <<snd, rtx, app, inj, codec, emu>>

-----------------------------------------------------------------------------
(* The client deployment (client.py): send() on the main thread, pump()     *)
(* feeding handle_raw on a second, _retx_loop on a third; the server's      *)
(* session receives.                                                        *)

\* the client's application calls send() with the next n bytes of its stream
ClientSend(n) ==
  /\ next_seq["c"] + ChunksOf(n) <= MaxChunks
  /\ SendCall("c", [i \in 1..n |-> StreamByte(Len(app["c"].passed) + i)])

Next ==
  \/ \E n \in SendLens : ClientSend(n)
  \/ SendWait("c")
  \/ SendRecord("c")
  \/ Tick
  \/ RetxScan("c")
  \/ RetxOne("c")
  \/ \E p \in Peer : \E raw \in net[p] : Deliver(p, raw)
  \/ \E p \in Peer : \E raw \in net[p] : DeliverDup(p, raw)
  \/ \E p \in Peer : \E raw \in net[p] : Lose(p, raw)
  \/ \E p \in Peer : \E raw \in net[p] : \E i \in FlipAt : DeliverCorrupt(p, raw, i)
  \/ RecvAvailable("s")

Spec == Init /\ [][Next]_vars

\* a is a prefix of b
IsPrefix(a, b) == Len(a) <= Len(b) /\ a = SubSeq(b, 1, Len(a))

\* C2: what the receiver's recv_available() calls have returned so far is a prefix of
\* what the sender's send() calls were given so far
C2_ReceivedIsPrefixOfSent == IsPrefix(app["s"].got, app["c"].passed)

\* a stream of MaxChunks chunks, given to send() in two calls, came whole out of
\* recv_available
C2_Witness ==
  /\ Len(app["c"].passed) > MAX_PAYLOAD + 1
  /\ next_seq["c"] = MaxChunks
  /\ app["s"].got = app["c"].passed

\* C5: sent never holds more than window entries, and the DATA packets transmitted
\* and not acknowledged (those of sent and the one send() has transmitted and not yet
\* recorded) never number more than window
C5_WindowBound ==
  /\ Cardinality(DOMAIN sent["c"]) <= Window
  /\ Cardinality(log["c"].tx \ acked["c"]) <= Window

\* the window is full while send() waits with a further chunk
C5_Witness ==
  /\ Cardinality(DOMAIN sent["c"]) = Window
  /\ snd["c"].pc = "wait"
  /\ ~WindowOpen("c")

-----------------------------------------------------------------------------
(* The client deployment again, for what eventually happens: one send() of  *)
(* one to MaxChunks chunks, over a channel that loses and corrupts but      *)
(* delivers, whole, every datagram that is sent again and again.  The       *)
(* three tasks of the client keep running and time keeps passing.           *)

\* the lengths of the data of the one send() call: 1 to MaxChunks chunks
OnceLens == {k * MAX_PAYLOAD + 1 : k \in 0..(MaxChunks - 1)}

\* the client's application calls send() once
ClientSendOnce(n) ==
  /\ app["c"].passed = <<>>
  /\ ClientSend(n)

NextClient ==
  \/ \E n \in OnceLens : ClientSendOnce(n)
  \/ SendWait("c")
  \/ SendRecord("c")
  \/ Tick
  \/ RetxScan("c")
  \/ RetxOne("c")
  \/ \E p \in Peer : \E raw \in net[p] : Deliver(p, raw)
  \/ \E p \in Peer : \E raw \in net[p] : Lose(p, raw)
  \/ \E p \in Peer : \E raw \in net[p] : \E i \in FlipAt : DeliverCorrupt(p, raw, i)

\* some datagram in flight to p reaches it whole
Arrive(p) == \E raw \in net[p] : Deliver(p, raw)

\* The threads run and the clock runs (weak fairness), and the channel, which may
\* lose or corrupt any datagram, does not do so for ever to all that goes one way
\* (strong fairness).  A channel that delivers every datagram sent infinitely often
\* is such a channel.
FairClient ==
  /\ WF_vars(SendWait("c"))
  /\ WF_vars(SendRecord("c"))
  /\ WF_vars(Tick)
  /\ WF_vars(RetxScan("c"))
  /\ WF_vars(RetxOne("c"))
  /\ \A p \in Peer : SF_vars(Arrive(p))

SpecClientFair == Init /\ [][NextClient]_vars /\ FairClient

\* send() has returned, sent is empty and the receiver's app_queue holds the data
SendDone ==
  /\ snd["c"].pc = "idle"
  /\ DOMAIN sent["c"] = {}
  /\ Join(app_queue["s"]) = app["c"].passed

\* C3: in the client deployment over a fair lossy channel, a send() of 1 to
\* MaxChunks chunks leads to: send() has returned, every chunk is in the receiver's
\* app_queue, and sent is empty
C3_SendCompletes == (app["c"].passed # <<>>) ~> SendDone

\* a send() of MaxChunks chunks, more than the window, is done
C3_Witness ==
  /\ Len(app["c"].passed) > Window * MAX_PAYLOAD
  /\ SendDone

-----------------------------------------------------------------------------
(* The server deployment (server.py): one thread runs the loop that reads   *)
(* the socket, calls handle_raw, reads recv_available, parses commands and  *)
(* calls send() for a GET; only _retx_loop runs beside it.  The client      *)
(* (client.py) sends its GET, and its pump thread feeds handle_raw.  The    *)
(* channel delivers every datagram, unchanged.                              *)

\* b"\n"
Newline == 10

\* the sizes of the file f: one chunk, and one chunk more than the window
FileLens == {1, Window * MAX_PAYLOAD + 1}

\* sess.send(f"GET {args.filename}\n".encode())
ClientGet ==
  /\ app["c"].passed = <<>>
  /\ SendCall("c", GetCommand)

\* st.inbuf.find(b"\n"), 1-based; 0 if there is none
FindNl(buf) ==
  IF \E i \in 1..Len(buf) : buf[i] = Newline
  THEN CHOOSE i \in 1..Len(buf) : buf[i] = Newline /\ \A j \in 1..(i - 1) : buf[j] # Newline
  ELSE 0

\* line.upper().startswith("GET ")
IsGet(line) == Len(line) >= 4 /\ SubSeq(line, 1, 4) = SubSeq(GetCommand, 1, 4)

\* str.upper() of one ASCII byte
Upper(b) == IF b >= 97 /\ b <= 122 THEN b - 32 ELSE b

\* line.upper().startswith("PUT ")
IsPut(line) ==
  Len(line) >= 4 /\ [i \in 1..4 |-> Upper(line[i])] = SubSeq(PutCommand, 1, 4)

\* str(n).encode() of a natural number
RECURSIVE Digits(_)
Digits(n) == IF n < 10 THEN <<48 + n>> ELSE Digits(n \div 10) \o <<48 + (n % 10)>>

\* f"OK: Stored {filename} ({nbytes} bytes)".encode() for the file "f"
OkStored(nbytes) ==
  <<79, 75, 58, 32, 83, 116, 111, 114, 101, 100, 32, 102, 32, 40>>
    \o Digits(nbytes) \o <<32, 98, 121, 116, 101, 115, 41>>

\* ("OK: ECHO: " + line).encode()
OkEcho(line) == <<79, 75, 58, 32, 69, 67, 72, 79, 58, 32>> \o line

\* a variant of OnFileBytes that keeps only the bytes that came last
OnFileBytesReplace(filebuf, more) == IF more = <<>> THEN filebuf ELSE more

\* PeerState.on_file_bytes: self.filebuf.extend(data)
OnFileBytes(filebuf, more) == filebuf \o more

\* the server's loop enters send(data)
SrvSend(data) ==
  [pc |-> IF Len(data) > 0 THEN "wait" ELSE "idle", data |-> data,
   offset |-> 0, seq |-> 0, pkt_bytes |-> <<>>]

\* One turn of the server's loop while it is not inside send(): recvfrom gave the
\* datagrams of rcvd (one, or none on a timeout); handle_raw; then, in PUT mode,
\* recv_available goes to filebuf, and a turn that brought no file bytes with the idle
\* time up (cut) stores the file and calls send() with the "OK: Stored" line; out of
\* PUT mode the bytes join inbuf and the first complete line is obeyed: "GET f" calls
\* send() with the n bytes of the file, "PUT f" enters PUT mode, any other line is
\* echoed.  The loop goes no further until send() returns.
SrvTurn(rcvd, n, cut) ==
  /\ snd["s"].pc = "idle"
  /\ \E r \in {IF rcvd = <<>> THEN Same("s") ELSE HandleRaw("s", rcvd[1])} :
     \E more \in {Join(r.app_queue)} :
     \E inbuf \in {IF app["s"].mode = "receiving" THEN app["s"].inbuf ELSE app["s"].inbuf \o more} :
     \E nl \in {FindNl(inbuf)} :
       /\ sent' = [sent EXCEPT !["s"] = r.sent]
       /\ acked' = [acked EXCEPT !["s"] = r.acked]
       /\ expected' = [expected EXCEPT !["s"] = r.expected]
       /\ recv_buf' = [recv_buf EXCEPT !["s"] = r.recv_buf]
       /\ app_queue' = [app_queue EXCEPT !["s"] = <<>>]
       /\ log' = [log EXCEPT !["s"].deliver = r.deliver]
       /\ net' = [net EXCEPT !["s"] = @ \ Range(rcvd), !["c"] = @ \cup Range(r.out)]
       /\ IF app["s"].mode = "receiving"
          THEN IF more = <<>> /\ cut
               THEN \E data \in {OkStored(Len(app["s"].filebuf))} :
                      /\ snd' = [snd EXCEPT !["s"] = SrvSend(data)]
                      /\ app' = [app EXCEPT !["s"].mode = "None", !["s"].filebuf = <<>>,
                                            !["s"].stored = Append(@, app["s"].filebuf),
                                            !["s"].passed = @ \o data]
               ELSE /\ app' = [app EXCEPT !["s"].got = @ \o more,
                                          !["s"].filebuf = OnFileBytes(@, more)]
                    /\ UNCHANGED snd
          ELSE IF more # <<>> /\ nl > 0
          THEN \E line \in {SubSeq(inbuf, 1, nl - 1)} :
               \E data \in {IF IsGet(line) THEN [i \in 1..n |-> StreamByte(i)]
                            ELSE IF IsPut(line) THEN <<>> ELSE OkEcho(line)} :
                 /\ snd' = [snd EXCEPT !["s"] = SrvSend(data)]
                 /\ app' = [app EXCEPT !["s"].got = @ \o more,
                                       !["s"].inbuf = SubSeq(inbuf, nl + 1, Len(inbuf)),
                                       !["s"].passed = @ \o data,
                                       !["s"].mode = IF IsPut(line) /\ ~IsGet(line)
                                                     THEN "receiving" ELSE @]
          ELSE /\ app' = [app EXCEPT !["s"].got = @ \o more, !["s"].inbuf = inbuf]
               /\ UNCHANGED snd
  /\ UNCHANGED <<next_seq, rtx, inj, codec, emu>>

\* a turn of the loop of a server that is in no upload
SrvLoop(rcvd, n) == SrvTurn(rcvd, n, FALSE)

\* recvfrom returned a datagram
SrvRecv(raw) == raw \in net["s"] /\ \E n \in FileLens : SrvLoop(<<raw>>, n)

\* recvfrom timed out
SrvIdle == \E n \in FileLens : SrvLoop(<<>>, n)

NextServer ==
  \/ ClientGet
  \/ SendWait("c")
  \/ SendRecord("c")
  \/ RetxScan("c")
  \/ RetxOne("c")
  \/ \E raw \in net["c"] : Deliver("c", raw)
  \/ RecvAvailable("c")
  \/ Tick
  \/ \E raw \in net["s"] : SrvRecv(raw)
  \/ SrvIdle
  \/ SendWait("s")
  \/ SendRecord("s")
  \/ RetxScan("s")
  \/ RetxOne("s")

\* the datagrams of these runs: the GET, the chunks of the file and the ACKs
GetDatagrams ==
  {Wire(0, FALSE, GetCommand)}
  \cup {Wire(q, FALSE, [i \in 1..n |-> StreamByte(q * MAX_PAYLOAD + i)]) :
          q \in 0..Window, n \in {1, MAX_PAYLOAD}}
  \cup {AckBytes(q) : q \in 0..Window}

\* every thread of both programs keeps running, the clock runs, and a datagram in
\* flight is read by the program it goes to when that program reads its socket
FairServer ==
  /\ \A p \in Peer : /\ WF_vars(SendWait(p))
                      /\ WF_vars(SendRecord(p))
                      /\ WF_vars(RetxScan(p))
                      /\ WF_vars(RetxOne(p))
  /\ WF_vars(Tick)
  /\ WF_vars(RecvAvailable("c"))
  /\ \A raw \in GetDatagrams : WF_vars(Deliver("c", raw)) /\ WF_vars(SrvRecv(raw))

SpecServer == Init /\ [][NextServer]_vars /\ FairServer

\* the server's send() has returned and the client's application has the file
GetDone ==
  /\ app["s"].passed # <<>>
  /\ snd["s"].pc = "idle"
  /\ app["c"].got = app["s"].passed

\* C4: in the server deployment, on a channel that loses nothing, the client's GET
\* leads to: the server's send() of the file has returned and the client has all of
\* the file, also for a file of more chunks than the window
C4_GetCompletes == (app["c"].passed # <<>>) ~> GetDone

\* the server's loop is inside send(), waiting for the window to open, while the
\* ACKs that would open it wait in its socket and a chunk of the file is yet unsent
C4_Witness ==
  /\ snd["s"].pc = "wait"
  /\ ~WindowOpen("s")
  /\ \E q \in DOMAIN sent["s"] : AckBytes(q) \in net["s"]

-----------------------------------------------------------------------------
(* The codec on its own: a packet is built and packed, the emulator may    *)
(* flip one byte of the wire form, the wire form is unpacked, and a        *)
(* corrupted wire form is fed to the handle_raw of a fresh session.        *)

\* seq_num samples over the 32-bit range; -2^31 and -1 stand for 2^31 and 2^32 - 1
CodecSeqs == {0, 1, 255, 256, 65535, 65536, 2147483647, -2147483647 - 1, -1}

CodecAlphabet == {0, 65, 255}

\* payloads: every string over the alphabet up to MaxCodecLen, and full-size ones
CodecPayloads ==
  UNION {[1..n -> CodecAlphabet] : n \in 0..MaxCodecLen}
    \cup {[i \in 1..n |-> (i * 37) % 256] : n \in {MAX_PAYLOAD - 1, MAX_PAYLOAD}}

otherVars == <<snd, rtx, app, inj, emu>>

\* Packet(seq, ack, payload).pack()
CodecPack(seq, ack, payload) ==
  /\ codec.stage = "new"
  /\ codec' = [stage |-> "packed", seq |-> seq, ack |-> ack, payload |-> payload,
               wire |-> Pack(Packet(seq, ack, payload)), flip |-> -1]
  /\ UNCHANGED <<sessVars, net, log, otherVars>>

\* emulator.py corrupt(data) with random index i
CodecCorrupt(i) ==
  /\ codec.stage = "packed"
  /\ i < Len(codec.wire)
  /\ codec' = [codec EXCEPT !.stage = "flipped", !.wire = corrupt(codec.wire, i), !.flip = i]
  /\ UNCHANGED <<sessVars, net, log, otherVars>>

\* Packet.unpack(wire)
CodecUnpack ==
  /\ codec.stage \in {"packed", "flipped"}
  /\ codec' = [stage |-> "unpacked", seq |-> codec.seq, ack |-> codec.ack,
               payload |-> codec.payload, wire |-> codec.wire, flip |-> codec.flip,
               out |-> Unpack(codec.wire)]
  /\ UNCHANGED <<sessVars, net, log, otherVars>>

\* handle_raw(wire) on the server's session, for a wire form the emulator corrupted;
\* acted records whether the session changed or sent anything
CodecFeed ==
  /\ codec.stage = "unpacked"
  /\ codec.flip >= 0
  /\ \E r \in {HandleRaw("s", codec.wire)} :
       /\ Ingest("s", r, net["s"])
       /\ codec' = [stage |-> "fed", seq |-> codec.seq, ack |-> codec.ack,
                    payload |-> codec.payload, wire |-> codec.wire, flip |-> codec.flip,
                    out |-> codec.out, acted |-> (r # Same("s"))]
  /\ UNCHANGED otherVars

NextCodec ==
  \/ \E seq \in CodecSeqs, ack \in BOOLEAN, payload \in CodecPayloads : CodecPack(seq, ack, payload)
  \/ \E i \in 0..(HEADER_SIZE + MAX_PAYLOAD - 1) : CodecCorrupt(i)
  \/ CodecUnpack
  \/ CodecFeed

SpecCodec == Init /\ [][NextCodec]_vars

\* C9: unpack(pack(Packet(seq, ack, payload))) gives back seq, the ACK flag, the
\* payload and its length, with checksum_ok true, for every sampled seq of the
\* 32-bit range, both flags and every payload of 0..MAX_PAYLOAD bytes
C9_RoundTrip ==
  (codec.stage = "unpacked" /\ codec.flip = -1) =>
    /\ ~codec.out.raised
    /\ codec.out.good
    /\ codec.out.pkt.seq_num = codec.seq
    /\ (codec.out.pkt.flags = FLAG_ACK) = codec.ack
    /\ codec.out.pkt.flags \in {0, FLAG_ACK}
    /\ codec.out.pkt.payload = codec.payload
    /\ codec.out.pkt.length = Len(codec.payload)

\* a full-size ACK-flagged packet with seq 2^32 - 1 went through pack and unpack
C9_Witness ==
  /\ codec.stage = "unpacked"
  /\ codec.flip = -1
  /\ codec.seq = -1
  /\ codec.ack
  /\ Len(codec.payload) = MAX_PAYLOAD
  /\ codec.out.good

\* C10: after one byte of an encoded packet is flipped (XOR 0xFF), at any position of
\* the header or the payload, unpack reports checksum_ok false, and handle_raw on
\* that datagram changes nothing and sends nothing
C10_SingleFlipDetected ==
  /\ (codec.stage \in {"unpacked", "fed"} /\ codec.flip >= 0) =>
       (~codec.out.raised /\ ~codec.out.good)
  /\ codec.stage = "fed" => ~codec.acted

\* a full-size DATA packet whose length field (low byte) was flipped was unpacked and fed
C10_Witness ==
  /\ codec.stage = "fed"
  /\ codec.flip = 6
  /\ ~codec.ack
  /\ Len(codec.payload) = MAX_PAYLOAD
  /\ ~codec.out.good

-----------------------------------------------------------------------------
(* The receiver on its own: a test feeds valid DATA datagrams to the       *)
(* handle_raw of the server's session in any order, with repeats, gaps and *)
(* differing payloads for one seq, and the application drains the queue.   *)

InjPayloads == {<<65>>, <<66, 67>>}

InjDatagrams == {Pack(Packet(q, FALSE, pl)) : q \in 0..MaxInjSeq, pl \in InjPayloads}

\* each of them unpacked
InjPkt == [raw \in InjDatagrams |-> Unpack(raw).pkt]

\* the bag of the datagrams of a sequence of at most one datagram
BagOf(out) == IF out = <<>> THEN EmptyBag ELSE SetToBag({out[1]})

\* handle_raw(raw); ooo notes that some datagram arrived ahead of expected
Inject(raw) ==
  /\ BagCardinality(inj.fed) < MaxInject
  /\ \E r \in {HandleRaw("s", raw)} :
       /\ Ingest("s", r, net["s"])
       /\ inj' = [fed  |-> inj.fed (+) SetToBag({raw}),
                  acks |-> inj.acks (+) BagOf(r.out),
                  ooo  |-> inj.ooo \/ InjPkt[raw].seq_num > expected["s"]]
  /\ UNCHANGED <<snd, rtx, app, codec, emu>>

NextRecv ==
  \/ \E raw \in InjDatagrams : Inject(raw)
  \/ RecvAvailable("s")

SpecRecv == Init /\ [][NextRecv]_vars

\* the seq a fed datagram carries
SeqOf(raw) == InjPkt[raw].seq_num

\* the ACK datagrams of the seqs a test feeds, each unpacked
InjAcks == [a \in {AckBytes(q) : q \in 0..MaxInjSeq} |-> Unpack(a)]

\* the fed datagrams that carry seq q
FedWith(q) == {raw \in BagToSet(inj.fed) : SeqOf(raw) = q}

\* how many times a datagram carrying seq q was fed
TimesFed(q) == BagCardinality([raw \in FedWith(q) |-> inj.fed[raw]])

\* the pieces of the DELIVER log of p, joined
DeliveredBytes(p) == Join([k \in 1..Len(log[p].deliver) |-> log[p].deliver[k].piece])

\* C1: whatever valid DATA datagrams handle_raw is fed, the chunks appended to
\* app_queue are those of seqs 0, 1, ..., expected-1 in that order, each once, each a
\* payload that was fed for its seq, and they are what the queue and the application hold
C1_InOrderDelivery ==
  LET d == log["s"].deliver
  IN  /\ Len(d) = expected["s"]
      /\ \A k \in 1..Len(d) :
           /\ d[k].seq = k - 1
           /\ \E raw \in FedWith(k - 1) : InjPkt[raw].payload = d[k].piece
      /\ DeliveredBytes("s") = app["s"].got \o Join(app_queue["s"])

\* two chunks were delivered and returned although a datagram arrived ahead of
\* expected and one was repeated
C1_Witness ==
  /\ expected["s"] = 2
  /\ inj.ooo
  /\ \E raw \in BagToSet(inj.fed) : inj.fed[raw] >= 2
  /\ Len(app["s"].got) >= 2

\* C6: the K datagrams fed for a seq draw exactly K ACKs carrying that seq, each
\* with the ACK flag, a good checksum and an empty payload, and the chunk of a seq
\* is appended at most once
C6_Idempotence ==
  /\ BagCardinality(inj.acks) = BagCardinality(inj.fed)
  /\ \A a \in BagToSet(inj.acks) :
       /\ a \in DOMAIN InjAcks
       /\ ~InjAcks[a].raised /\ InjAcks[a].good
       /\ InjAcks[a].pkt.flags = FLAG_ACK
       /\ InjAcks[a].pkt.payload = <<>>
       /\ Len(a) = HEADER_SIZE
       /\ inj.acks[a] = TimesFed(InjAcks[a].pkt.seq_num)
  /\ \A q \in 0..MaxInjSeq :
       Cardinality({k \in 1..Len(log["s"].deliver) : log["s"].deliver[k].seq = q}) <= 1

\* the same datagram of seq 0 was fed three times, seq 0 being new, then below expected
C6_Witness ==
  /\ \E raw \in BagToSet(inj.fed) : SeqOf(raw) = 0 /\ inj.fed[raw] >= 3
  /\ expected["s"] >= 1
  /\ \E raw \in BagToSet(inj.fed) : SeqOf(raw) = 2 /\ inj.fed[raw] >= 2

\* C7: a valid DATA datagram whose seq is below expected or already buffered leaves
\* expected, recv_buf and app_queue as they are, whatever its payload
C7_DuplicateLeavesReceiver ==
  [][\A raw \in InjDatagrams :
       (/\ inj.fed' = inj.fed (+) SetToBag({raw})
        /\ (SeqOf(raw) < expected["s"] \/ SeqOf(raw) \in DOMAIN recv_buf["s"]))
       => UNCHANGED <<expected, recv_buf, app_queue>>]_vars

\* seq 1 sits in recv_buf behind a gap, and two datagrams of seq 1 with different
\* payloads were fed: the second found seq 1 buffered
C7_Witness ==
  /\ 1 \in DOMAIN recv_buf["s"]
  /\ Cardinality(FedWith(1)) = 2
  /\ expected["s"] = 0

\* C8: once exactly one datagram for each seq of 0..N-1 was fed, in whatever order,
\* expected is N, recv_buf is empty and the chunks delivered (returned or queued) are
\* those of seqs 0..N-1 in seq order
C8_Permutation ==
  \A N \in 1..(MaxInjSeq + 1) :
    (/\ BagCardinality(inj.fed) = N
     /\ \A q \in 0..(N - 1) : TimesFed(q) = 1)
    => /\ expected["s"] = N
       /\ recv_buf["s"] = <<>>
       /\ app["s"].got \o Join(app_queue["s"])
            = Join([k \in 1..N |-> InjPkt[CHOOSE raw \in FedWith(k - 1) : TRUE].payload])
       /\ Len(log["s"].deliver) = N

\* every seq of 0..MaxInjSeq was fed once, not in seq order, and all were delivered
C8_Witness ==
  /\ BagCardinality(inj.fed) = MaxInjSeq + 1
  /\ \A q \in 0..MaxInjSeq : TimesFed(q) = 1
  /\ inj.ooo
  /\ expected["s"] = MaxInjSeq + 1

-----------------------------------------------------------------------------
(* handle_raw under test with a sender at work: the client's session sends  *)
(* (nothing comes back by itself) and datagrams of every kind are handed to *)
(* its handle_raw: well-formed DATA and ACKs, buffers shorter than a        *)
(* header, datagrams with one byte flipped, and buffers that end before the *)
(* payload length their header declares.                                    *)

\* the DATA datagram the malformed ones are made from
FeedBase == Wire(0, FALSE, <<66, 67>>)

\* well-formed DATA datagrams
FeedData == {Wire(q, FALSE, <<66, 67>>) : q \in 0..1}

\* well-formed ACKs: of seqs the sender used, and of one it never reaches
FeedAcks == {AckBytes(q) : q \in 0..MaxChunks}

\* buffers shorter than HEADER_SIZE
FeedShort == {SubSeq(d, 1, k) : d \in {FeedBase, AckBytes(0)}, k \in {0, 1, HEADER_SIZE - 1}}

\* datagrams the emulator flipped one byte of
FeedFlipped ==
  UNION {{corrupt(d, i) : i \in {j \in FlipAt : j < Len(d)}} : d \in {FeedBase, AckBytes(0)}}

\* a datagram cut short on the way: its checksum is that of the whole payload
FeedCut == {SubSeq(FeedBase, 1, HEADER_SIZE + 1)}

\* a buffer whose header declares `length` payload bytes and carries only `payload`,
\* with the checksum field unpack works out for it: crc32 of the header fields
\* followed by the payload that is there
Forge(seq, flags, length, payload) ==
  The({head_wo \o Crc32(head_wo \o payload) \o payload :
         head_wo \in {HeadWo(seq, flags, length)}})

\* such buffers: a DATA header declaring 5 bytes with 2, an ACK header declaring 1 with 0
FeedForged == {Forge(0, 0, 5, <<66, 67>>), Forge(0, FLAG_ACK, 1, <<>>)}

\* whole packets with a good checksum and a length no session sends: a DATA packet of
\* MAX_PAYLOAD + 1 bytes, an ACK with one byte of payload
FeedOverlong == {Forge(0, 0, MAX_PAYLOAD + 1, [i \in 1..(MAX_PAYLOAD + 1) |-> 66]),
                 Forge(0, FLAG_ACK, 1, <<65>>)}

FeedDatagrams ==
  FeedData \cup FeedAcks \cup FeedShort \cup FeedFlipped \cup FeedCut \cup FeedForged \cup FeedOverlong


\* Packet.unpack of each of them, worked out once
FeedUnpacked == [raw \in FeedDatagrams |-> Unpack(raw)]

\* the exception Packet.unpack ends with, "" when it returns
UnpackRaises(raw) == IF FeedUnpacked[raw].raised THEN "ValueError" ELSE ""

\* the exceptions the "except Exception" of handle_raw takes
ExceptException == {"ValueError"}

\* whether handle_raw(raw) ends with an exception at its caller
HandleRawRaises(raw) == UnpackRaises(raw) \notin (ExceptException \cup {""})

\* handle_raw(raw) on the client's session; the test notes the datagram, what the
\* call sent and whether it raised
Feed(raw) ==
  /\ inj.n < MaxFeed
  /\ \E r \in {HandleRaw("c", raw)} :
       /\ Ingest("c", r, net["c"])
       /\ inj' = [inj EXCEPT !.n = @ + 1, !.last = raw, !.out = r.out,
                             !.raised = HandleRawRaises(raw)]
  /\ UNCHANGED <<snd, rtx, app, codec, emu>>

NextFeed ==
  \/ \E n \in SendLens : ClientSend(n)
  \/ SendWait("c")
  \/ SendRecord("c")
  \/ \E raw \in FeedDatagrams : Feed(raw)

SpecFeed == Init /\ [][NextFeed]_vars

\* this step handed a datagram to handle_raw
Fed == inj'.n = inj.n + 1

\* the payload length the header of a buffer declares
DeclaredLength(raw) == U16(Slice(raw, 5, 7))

\* C11: handle_raw on a datagram that fails to decode (shorter than the header) or
\* whose checksum does not match sends no ACK, leaves next_seq, sent, acked, expected,
\* recv_buf and app_queue as they were, and does not raise
C11_BadDatagramDropped ==
  [][(Fed /\ (FeedUnpacked[inj'.last].raised \/ ~FeedUnpacked[inj'.last].good))
       => /\ UNCHANGED sessVars
          /\ UNCHANGED net
          /\ inj'.out = <<>>
          /\ ~inj'.raised]_vars

\* the session has entries in sent, acked seqs and a buffered chunk; the last datagram
\* handed in had a flipped byte in its payload, and an earlier call had sent an ACK
C11_Witness ==
  /\ inj.last = corrupt(FeedBase, HEADER_SIZE)
  /\ inj.n = MaxFeed
  /\ sent["c"] # <<>>
  /\ acked["c"] # {}
  /\ recv_buf["c"] # <<>>
  /\ net["s"] \cap {AckBytes(1)} # {}

\* C12: a buffer at least HEADER_SIZE long but shorter than HEADER_SIZE plus the length
\* its header declares fails to decode and handle_raw drops it, whatever its checksum
C12_TruncatedDropped ==
  [][(/\ Fed
      /\ Len(inj'.last) >= HEADER_SIZE
      /\ Len(inj'.last) < HEADER_SIZE + DeclaredLength(inj'.last))
       => /\ UNCHANGED sessVars
          /\ UNCHANGED net
          /\ inj'.out = <<>>]_vars

\* the forged DATA buffer was handed in and its two bytes went to the application
C12_Witness ==
  /\ inj.last = Forge(0, 0, 5, <<66, 67>>)
  /\ inj.out = <<AckBytes(0)>>
  /\ app_queue["c"] = <<<<66, 67>>>>

\* C20: _on_ack(seq) with seq in sent removes it from sent and adds it to acked; with
\* seq not in sent it leaves sent and acked alone; either way next_seq, expected,
\* recv_buf and app_queue stay and no datagram is sent
C20_OnAckFrame ==
  [][(Fed /\ inj'.last \in FeedAcks)
       => LET q == FeedUnpacked[inj'.last].pkt.seq_num
          IN  /\ IF q \in DOMAIN sent["c"]
                 THEN /\ sent' = [sent EXCEPT !["c"] = Without(@, q)]
                      /\ acked' = [acked EXCEPT !["c"] = @ \cup {q}]
                 ELSE UNCHANGED <<sent, acked>>
              /\ UNCHANGED <<next_seq, expected, recv_buf, app_queue, net>>
              /\ inj'.out = <<>>]_vars

\* ACKs were handed in for a seq in sent (now acked), and the last one for a seq that
\* was not in sent, with another entry still in sent and a chunk in recv_buf
C20_Witness ==
  /\ inj.last \in FeedAcks
  /\ FeedUnpacked[inj.last].pkt.seq_num \notin (DOMAIN sent["c"] \cup acked["c"])
  /\ acked["c"] # {}
  /\ sent["c"] # <<>>
  /\ recv_buf["c"] # <<>>

-----------------------------------------------------------------------------
(* The sender's bookkeeping in the client deployment, with send(), the      *)
(* pump's _on_ack and _retx_loop interleaved over the impaired channel      *)

\* C13: sent and acked have no seq in common, and every seq in sent or in acked is
\* below next_seq, whatever the interleaving of send(), _on_ack and the retx loop
C13_SentAckedDisjoint ==
  \A p \in Peer :
    /\ DOMAIN sent[p] \cap acked[p] = {}
    /\ \A q \in DOMAIN sent[p] \cup acked[p] : q < next_seq[p]

\* all three tasks are mid-way: send() has transmitted a chunk it has not recorded,
\* the retx loop holds seqs to send again, and an ACK has been handled
C13_Witness ==
  /\ snd["c"].pc = "record"
  /\ rtx["c"].to_retx # <<>>
  /\ sent["c"] # <<>>
  /\ acked["c"] # {}

-----------------------------------------------------------------------------
(* stop(): the client deployment with a caller that stops its session       *)
(* between two calls of send() and may call send() again afterwards         *)

\* RDTSession.stop, from the thread that calls send(): self._running = False; the
\* join gives the retx thread a second and returns either way
Stop(p) ==
  /\ snd[p].pc = "idle"
  /\ rtx[p].running
  /\ rtx' = [rtx EXCEPT ![p].running = FALSE]
  /\ UNCHANGED <<sessVars, snd, net, app, log, inj, codec, emu>>

NextStop ==
  \/ \E n \in SendLens : ClientSend(n)
  \/ SendWait("c")
  \/ SendRecord("c")
  \/ Tick
  \/ RetxScan("c")
  \/ RetxOne("c")
  \/ \E p \in Peer : \E raw \in SessionDatagrams : Deliver(p, raw)
  \/ \E p \in Peer : \E raw \in SessionDatagrams : Lose(p, raw)
  \/ Stop("c")

\* the retx thread is scheduled again and again: each turn of its loops is taken
FairStop ==
  /\ WF_vars(RetxScan("c"))
  /\ WF_vars(RetxOne("c"))

SpecStop == Init /\ [][NextStop]_vars /\ FairStop

\* this step sent again a datagram of sent: the timer of an entry that had run out
\* was restarted
Retransmits(p) ==
  \E q \in DOMAIN sent[p] \cap DOMAIN sent'[p] : sent[p][q].due /\ ~sent'[p][q].due

\* C16: once stop() was called, send(data) transmits no new DATA packet (it is dropped
\* or rejected), and sent and acked stay disjoint with every seq below next_seq and at
\* most window entries in sent
C16_SendAfterStopDropped ==
  /\ [][(~rtx["c"].running) => (log'["c"].tx = log["c"].tx)]_vars
  /\ [](/\ DOMAIN sent["c"] \cap acked["c"] = {}
        /\ \A q \in DOMAIN sent["c"] \cup acked["c"] : q < next_seq["c"]
        /\ Cardinality(DOMAIN sent["c"]) <= Window)

\* stop() was called between two send() calls and the second has transmitted a chunk
C16_Witness ==
  /\ ~rtx["c"].running
  /\ snd["c"].pc = "record"
  /\ snd["c"].seq > 0
  /\ snd["c"].pkt_bytes \in net["s"]

\* C17: after stop() has set _running false the retx loop eventually ends, and once
\* it has ended nothing is retransmitted, whatever is left in sent
C17_RetxLoopEnds ==
  /\ (~rtx["c"].running) ~> (~rtx["c"].alive)
  /\ [][(~rtx["c"].alive) => (~rtx'["c"].alive /\ ~Retransmits("c"))]_vars

\* the loop has ended while an entry of sent has its timer run out
C17_Witness ==
  /\ ~rtx["c"].alive
  /\ \E q \in DOMAIN sent["c"] : sent["c"][q].due /\ q \notin acked["c"]

-----------------------------------------------------------------------------
(* An ACK handled while the retx loop is at work on the seq it              *)
(* acknowledges: one turn of "for seq in to_retx" taken as its two parts,   *)
(* the lock section and the sendto after it, with _on_ack free to run in    *)
(* between                                                                  *)

\* the lock section of a turn: rec = self.sent.get(seq); a seq that is gone is skipped,
\* else its bytes are taken and its timer is restarted
RetxPick(p) ==
  /\ rtx[p].to_retx # <<>>
  /\ rtx[p].hold = <<>>
  /\ LET seq == Head(rtx[p].to_retx)
     IN  IF seq \in DOMAIN sent[p]
         THEN /\ sent' = [sent EXCEPT ![p][seq].due = FALSE]
              /\ rtx' = [rtx EXCEPT ![p].to_retx = Tail(@),
                                    ![p].hold = <<[seq |-> seq, pkt_bytes |-> sent[p][seq].pkt_bytes]>>]
         ELSE /\ rtx' = [rtx EXCEPT ![p].to_retx = Tail(@)]
              /\ UNCHANGED sent
  /\ UNCHANGED <<next_seq, acked, expected, recv_buf, app_queue, snd, net, app, log, inj, codec, emu>>

\* self.sock.sendto(pkt_bytes, self.peer) of that turn, outside the lock; late notes
\* a datagram sent when its seq had left sent meanwhile
RetxSend(p) ==
  /\ rtx[p].hold # <<>>
  /\ net' = [net EXCEPT ![Other(p)] = @ \cup {rtx[p].hold[1].pkt_bytes}]
  /\ rtx' = [rtx EXCEPT ![p].hold = <<>>]
  /\ inj' = [inj EXCEPT !.late = IF rtx[p].hold[1].seq \in DOMAIN sent[p] THEN @
                                 ELSE @ (+) SetToBag({rtx[p].hold[1].seq}),
                        !.since = [q \in DOMAIN @ |-> IF q = rtx[p].hold[1].seq THEN 0 ELSE @[q]]]
  /\ UNCHANGED <<sessVars, snd, app, log, codec, emu>>

NextRace ==
  \/ \E n \in SendLens : ClientSend(n)
  \/ SendWait("c")
  \/ SendRecord("c")
  \/ Tick
  \/ RetxScan("c")
  \/ RetxPick("c")
  \/ RetxSend("c")
  \/ \E p \in Peer : \E raw \in SessionDatagrams : Deliver(p, raw)
  \/ \E p \in Peer : \E raw \in SessionDatagrams : Lose(p, raw)

SpecRace == Init /\ [][NextRace]_vars

\* C19: once _on_ack has removed a seq from sent (it is in acked) the seq never enters
\* sent again; the retx loop decides no retransmission of it after the removal, and
\* sends at most one, whose bytes it had taken before the removal
C19_AckedNotResent ==
  /\ [][\A q \in acked["c"] : q \notin DOMAIN sent'["c"]]_vars
  /\ [][(rtx["c"].hold = <<>> /\ rtx'["c"].hold # <<>>)
          => /\ rtx'["c"].hold[1].seq \in DOMAIN sent["c"]
             /\ rtx'["c"].hold[1].seq \notin acked["c"]]_vars
  /\ [](\A q \in BagToSet(inj.late) : inj.late[q] <= 1 /\ q \in acked["c"])

\* the ACK of seq 1 was handled between the lock section and the sendto of its
\* retransmission, which went out afterwards
C19_Witness ==
  /\ 1 \in BagToSet(inj.late)
  /\ 1 \in acked["c"]
  /\ 1 \notin DOMAIN sent["c"]
  /\ Wire(1, FALSE, <<StreamByte(MAX_PAYLOAD + 1)>>) \in net["s"]

-----------------------------------------------------------------------------
(* The client deployment on a channel that forwards every datagram          *)
(* unchanged, except that it may drop the first transmission of one DATA    *)
(* packet, once; every ACK is back before the timer of its packet runs out. *)
(* The channel counts what it forwards.                                     *)

\* the timer of the entry of seq q runs out: neither its datagram nor its ACK is on
\* the way, so no ACK for it can be back in time
Expire(p, q) ==
  /\ q \in DOMAIN sent[p]
  /\ ~sent[p][q].due
  /\ sent[p][q].pkt_bytes \notin net[Other(p)]
  /\ AckBytes(q) \notin net[p]
  /\ sent' = [sent EXCEPT ![p][q].due = TRUE]
  /\ UNCHANGED <<next_seq, acked, expected, recv_buf, app_queue, snd, rtx, net, app, log, inj, codec, emu>>

\* the emulator forwards a datagram and p's reader calls handle_raw(raw); the channel
\* counts the DATA datagrams that reach the server, the ACKs the server sends in
\* return and the ACKs that reach the client
Forward(p, raw) ==
  /\ raw \in net[p]
  /\ \E r \in {HandleRaw(p, raw)} :
       /\ Ingest(p, r, net[p] \ {raw})
       /\ inj' = IF p = "s"
                 THEN [inj EXCEPT !.data_rx = @ + 1, !.ack_tx = @ + Len(r.out)]
                 ELSE [inj EXCEPT !.ack_rx = @ + 1]
  /\ UNCHANGED <<snd, rtx, app, codec, emu>>

\* the emulator drops a DATA datagram: the first transmission of its seq (nothing of
\* that seq has reached the server), and the only drop of the run
DropFirst(raw) ==
  /\ raw \in net["s"]
  /\ inj.dropped = {}
  /\ \E q \in {Decode(raw).pkt.seq_num} :
       /\ q >= expected["s"]
       /\ q \notin DOMAIN recv_buf["s"]
       /\ inj' = [inj EXCEPT !.dropped = {q}]
  /\ net' = [net EXCEPT !["s"] = @ \ {raw}]
  /\ UNCHANGED <<sessVars, snd, rtx, app, log, codec, emu>>

NextOneDrop ==
  \/ \E n \in OnceLens : ClientSendOnce(n)
  \/ SendWait("c")
  \/ SendRecord("c")
  \/ \E q \in 0..(MaxChunks - 1) : Expire("c", q)
  \/ RetxScan("c")
  \/ RetxOne("c")
  \/ \E p \in Peer : \E raw \in SessionDatagrams : Forward(p, raw)
  \/ \E raw \in SessionDatagrams : DropFirst(raw)

SpecOneDrop == Init /\ [][NextOneDrop]_vars

\* the transfer is over: send() has returned, nothing is in flight or waits to be
\* sent again, and sent is empty
TransferOver ==
  /\ app["c"].passed # <<>>
  /\ snd["c"].pc = "idle"
  /\ sent["c"] = <<>>
  /\ rtx["c"].to_retx = <<>>
  /\ net = [p \in Peer |-> {}]

\* the DATA datagrams the client has transmitted and that are no longer in flight
DataTransmissions == inj.data_rx + Cardinality(inj.dropped)

\* C15: when the first transmission of one of N DATA packets is dropped and nothing
\* else goes wrong, the sender makes N + 1 DATA transmissions in all and no more, the
\* receiver sends N ACKs, and it delivers seqs 0..N-1 in order
C15_OneDropOneRetransmission ==
  inj.dropped # {}
  => /\ DataTransmissions <= next_seq["c"] + 1
     /\ inj.ack_tx <= next_seq["c"]
     /\ TransferOver
        => /\ DataTransmissions = next_seq["c"] + 1
           /\ inj.ack_tx = next_seq["c"]
           /\ log["s"].deliver
                = [k \in 1..next_seq["c"] |->
                     [seq |-> k - 1, piece |-> Slice(app["c"].passed, (k - 1) * MAX_PAYLOAD, k * MAX_PAYLOAD)]]

\* seq 1 of three was dropped once, the transfer is over, and five DATA datagrams
\* and four ACKs were sent
C15_Witness ==
  /\ inj.dropped = {1}
  /\ next_seq["c"] = 3
  /\ TransferOver
  /\ DataTransmissions = 5
  /\ inj.ack_tx = 4

\* C18: send() records sent[seq] atomically with respect to ACK handling: no ACK of a
\* seq that send() has transmitted is handled by _on_ack while the seq is not yet in
\* sent (where it would be ignored, and the seq recorded and retransmitted after all)
C18_RecordAtomic ==
  [][\A q \in log["c"].tx :
       (inj'.ack_rx = inj.ack_rx + 1 /\ AckBytes(q) \in net["c"] /\ AckBytes(q) \notin net'["c"])
         => q \in DOMAIN sent["c"] \cup acked["c"]]_vars

\* nothing was dropped, yet seq 0 is sent a second time: its ACK was handled before
\* send() had recorded it
C18_Witness ==
  /\ inj.dropped = {}
  /\ inj.ack_rx = 1
  /\ inj.data_rx = 1
  /\ 0 \in DOMAIN sent["c"]
  /\ 0 \notin acked["c"]
  /\ Wire(0, FALSE, <<StreamByte(1)>>) \in net["s"]

-----------------------------------------------------------------------------
(* The clean path of a PUT: client.py sends the header line and then the    *)
(* file, server.py takes the upload and answers once it has heard nothing   *)
(* for PUT_IDLE_TIMEOUT; the channel forwards every datagram, unchanged and *)
(* in the order sent.                                                       *)

\* content = f.read(): a file of FileChunks * MAX_PAYLOAD bytes
FileBytes == [i \in 1..(FileChunks * MAX_PAYLOAD) |-> StreamByte(i)]

\* sess.send(f"PUT {os.path.basename(args.filename)}\n".encode())
ClientPutHeader ==
  /\ app["c"].passed = <<>>
  /\ SendCall("c", PutCommand)

\* sess.send(content), after the header call has returned
ClientPutContent ==
  /\ app["c"].passed = PutCommand
  /\ SendCall("c", FileBytes)

\* both send() calls of the PUT have returned
ClientSent ==
  /\ app["c"].passed = PutCommand \o FileBytes
  /\ snd["c"].pc = "idle"

\* the flags bit of a datagram in flight
IsAck(raw) == Decode(raw).pkt.flags % 2 = 1

\* raw is the next datagram of its kind the channel hands to p: a sender's DATA
\* packets, and the ACKs they draw, leave in seq order, and what is sent again is a
\* copy of something that has arrived
NextInOrder(p, raw) ==
  /\ raw \in net[p]
  /\ \A d \in net[p] :
       IsAck(d) = IsAck(raw) => Decode(raw).pkt.seq_num <= Decode(d).pkt.seq_num

\* the client's pump reads the next datagram; the channel counts the ACKs
PumpRecv(raw) ==
  /\ NextInOrder("c", raw)
  /\ \E r \in {HandleRaw("c", raw)} :
       /\ Ingest("c", r, net["c"] \ {raw})
       /\ inj' = IF IsAck(raw) THEN [inj EXCEPT !.ack_rx = @ + 1] ELSE inj
  /\ UNCHANGED <<snd, rtx, app, codec, emu>>

\* the server's recvfrom returns the next datagram
SrvPutRecv(raw) ==
  /\ NextInOrder("s", raw)
  /\ SrvTurn(<<raw>>, 0, FALSE)

\* the server's recvfrom times out; the idle time of an upload can be up only when
\* the client has sent everything and nothing is on its way: the gaps of a clean
\* run (SEND_GAP, or one timeout and a retransmission) are below PUT_IDLE_TIMEOUT
SrvPutIdle ==
  \E cut \in {ClientSent /\ net["s"] = {}} : SrvTurn(<<>>, 0, cut)

NextPut ==
  \/ ClientPutHeader
  \/ ClientPutContent
  \/ \E p \in Peer : SendWait(p)
  \/ \E p \in Peer : SendRecord(p)
  \/ \E p \in Peer : \E q \in 0..FileChunks : Expire(p, q)
  \/ \E p \in Peer : RetxScan(p)
  \/ \E p \in Peer : RetxOne(p)
  \/ \E raw \in net["c"] : PumpRecv(raw)
  \/ RecvAvailable("c")
  \/ \E raw \in net["s"] : SrvPutRecv(raw)
  \/ SrvPutIdle

SpecPut == Init /\ [][NextPut]_vars

\* the upload is over: the server has stored a file and sent its answer, the client
\* has sent everything and has every ACK, and nothing is in flight
PutOver ==
  /\ app["s"].stored # <<>>
  /\ ClientSent
  /\ sent["c"] = <<>>
  /\ rtx["c"].to_retx = <<>>
  /\ net = [p \in Peer |-> {}]

-----------------------------------------------------------------------------
(* The per-packet timers with a clock: now() in whole seconds.  The clock   *)
(* keeps, for every seq, the seconds since its last recorded send time      *)
(* (age) and since its datagram last left (since); an entry is due once its *)
(* age is DEFAULT_TIMEOUT.  A turn of the retx loop is taken as its lock    *)
(* section and the sendto after it.                                         *)

\* a second passes.  An entry that is new in sent, or was due and is not any more,
\* had its time recorded within the second that ends: its age is 1.
ClockTick(p) ==
  /\ inj.now < MaxTime
  /\ \E age \in {[q \in DOMAIN sent[p] |->
                    IF q \notin DOMAIN inj.age
                       \/ (inj.age[q] >= DEFAULT_TIMEOUT /\ ~sent[p][q].due)
                    THEN 1 ELSE inj.age[q] + 1]} :
       /\ inj' = [inj EXCEPT !.now = @ + 1, !.age = age,
                             !.since = [q \in log[p].tx |-> IF q \in DOMAIN @ THEN @[q] + 1 ELSE 1]]
       /\ sent' = [sent EXCEPT ![p] = [q \in DOMAIN @ |->
                                         [@[q] EXCEPT !.due = age[q] >= DEFAULT_TIMEOUT]]]
  /\ UNCHANGED <<next_seq, acked, expected, recv_buf, app_queue, snd, rtx, net, app, log, codec, emu>>

NextTimer ==
  \/ \E n \in {1, MAX_PAYLOAD + 1} : ClientSendOnce(n)
  \/ SendWait("c")
  \/ SendRecord("c")
  \/ ClockTick("c")
  \/ RetxScan("c")
  \/ RetxPick("c")
  \/ RetxSend("c")
  \/ \E p \in Peer : \E raw \in SessionDatagrams : Deliver(p, raw)

SpecTimer == Init /\ [][NextTimer]_vars

\* C21 as stated: a seq is retransmitted only while it is in sent and only when at
\* least the timeout has passed since its last recorded send time; two consecutive
\* transmissions of a seq are never less than the timeout apart, and a
\* retransmission carries the bytes of the first transmission
C21_TimerSpacing ==
  /\ [][(rtx["c"].hold = <<>> /\ rtx'["c"].hold # <<>>)
          => LET q == rtx'["c"].hold[1].seq
             IN  /\ q \in DOMAIN sent["c"]
                 /\ q \in DOMAIN inj.age /\ inj.age[q] >= DEFAULT_TIMEOUT]_vars
  /\ [][(rtx["c"].hold # <<>> /\ rtx'["c"].hold = <<>>)
          => LET q == rtx["c"].hold[1].seq
             IN  /\ q \in DOMAIN sent["c"]
                 /\ inj.since[q] >= DEFAULT_TIMEOUT
                 /\ rtx["c"].hold[1].pkt_bytes
                      = Wire(q, FALSE, Slice(app["c"].passed, q * MAX_PAYLOAD, (q + 1) * MAX_PAYLOAD))]_vars

\* C21, amended: a retransmission of a seq is decided only while the seq is in sent
\* and only when at least the timeout has passed since its last recorded send time,
\* which the lock section that takes its bytes sets anew, so two recorded send times
\* of a seq are never less than the timeout apart; the datagram leaves after the lock
\* section, with the bytes of the first transmission
C21_DecisionSpacing ==
  /\ [][(rtx["c"].hold = <<>> /\ rtx'["c"].hold # <<>>)
          => LET q == rtx'["c"].hold[1].seq
             IN  /\ q \in DOMAIN sent["c"]
                 /\ q \in DOMAIN inj.age /\ inj.age[q] >= DEFAULT_TIMEOUT
                 /\ ~sent'["c"][q].due]_vars
  /\ [][(rtx["c"].hold # <<>> /\ rtx'["c"].hold = <<>>)
          => LET q == rtx["c"].hold[1].seq
             IN  /\ q \in DOMAIN sent["c"] \cup acked["c"]
                 /\ rtx["c"].hold[1].pkt_bytes
                      = Wire(q, FALSE, Slice(app["c"].passed, q * MAX_PAYLOAD, (q + 1) * MAX_PAYLOAD))]_vars

\* seq 0 left a second time less than DEFAULT_TIMEOUT seconds ago and its timer has
\* run out again: the retx loop holds its bytes for a third transmission
C21_Witness ==
  /\ rtx["c"].hold # <<>>
  /\ rtx["c"].hold[1].seq = 0
  /\ inj.since[0] < DEFAULT_TIMEOUT
  /\ inj.now >= 2 * DEFAULT_TIMEOUT

-----------------------------------------------------------------------------
(* send(data) by one caller, in the client deployment                       *)

\* C22: every first transmission of send() takes seq = next_seq, above every seq
\* sent before, and carries data[offset : offset + MAX_PAYLOAD] with offset a
\* multiple of MAX_PAYLOAD inside data, so a chunk is MAX_PAYLOAD bytes unless it is
\* the last; next_seq moves only with a transmission; send() returns only when the
\* chunks cover data; and send(b"") transmits nothing and changes nothing
C22_SendPartitions ==
  /\ [][LET s == snd["c"]
            q == next_seq["c"]
        IN  /\ (log'["c"].tx # log["c"].tx \/ next_seq'["c"] # q)
                 => /\ s.pc = "wait"
                    /\ log'["c"].tx = log["c"].tx \cup {q}
                    /\ \A r \in log["c"].tx : r < q
                    /\ next_seq'["c"] = q + 1
                    /\ s.offset % MAX_PAYLOAD = 0
                    /\ s.offset < Len(s.data)
                    /\ s.data = Slice(app["c"].passed, Len(app["c"].passed) - Len(s.data),
                                      Len(app["c"].passed))
                    /\ \E chunk \in {Slice(s.data, s.offset, s.offset + MAX_PAYLOAD)} :
                         /\ Len(chunk) = IF Len(s.data) - s.offset < MAX_PAYLOAD
                                         THEN Len(s.data) - s.offset ELSE MAX_PAYLOAD
                         /\ net'["s"] = net["s"] \cup {Wire(q, FALSE, chunk)}
                         /\ snd'["c"].pkt_bytes = Wire(q, FALSE, chunk)
            /\ (s.pc = "record" /\ snd'["c"].pc = "wait")
                 => /\ snd'["c"].data = s.data
                    /\ snd'["c"].offset = s.offset + MAX_PAYLOAD
                    /\ snd'["c"].offset < Len(s.data)
            /\ (s.pc = "record" /\ snd'["c"].pc = "idle")
                 => s.offset + MAX_PAYLOAD >= Len(s.data)]_vars
  /\ [](snd["c"].pc = "idle" => ENABLED (SendCall("c", <<>>) /\ UNCHANGED vars))

\* send() has returned from a call with MAX_PAYLOAD + 1 bytes that followed a call
\* with one byte: three chunks went out
C22_Witness ==
  /\ snd["c"].pc = "idle"
  /\ Len(app["c"].passed) = MAX_PAYLOAD + 2
  /\ log["c"].tx = {0, 1, 2}

-----------------------------------------------------------------------------
(* the receive buffer in the client deployment                              *)

\* C23: every key of the server's recv_buf is below expected + Window, the window of
\* the sending session, so recv_buf holds at most Window entries
C23_RecvBufBounded ==
  /\ \A k \in DOMAIN recv_buf["s"] : k < expected["s"] + Window
  /\ Cardinality(DOMAIN recv_buf["s"]) <= Window


\* C24: between two handlers every key of recv_buf is above expected, so no seq that
\* was delivered to app_queue is still buffered
C24_BufferedAboveExpected ==
  \A p \in Peer :
    /\ \A k \in DOMAIN recv_buf[p] : k > expected[p]
    /\ \A i \in 1..Len(log[p].deliver) : log[p].deliver[i].seq \notin DOMAIN recv_buf[p]

\* seq 0 was delivered and seq 2 waits in the buffer for seq 1
C24_Witness ==
  /\ expected["s"] = 1
  /\ DOMAIN recv_buf["s"] = {2}
  /\ Len(log["s"].deliver) = 1

-----------------------------------------------------------------------------
(* handle_raw and the length field                                          *)

\* C25: handle_raw drops a datagram with a good checksum and an impossible length (a
\* DATA packet declaring more than MAX_PAYLOAD bytes, an ACK declaring any): the
\* session stays as it was and nothing is sent; and no chunk of app_queue is ever
\* longer than MAX_PAYLOAD
C25_IllegalLengthDropped ==
  [][Fed =>
       /\ \A i \in 1..Len(app_queue'["c"]) : Len(app_queue'["c"][i]) <= MAX_PAYLOAD
       /\ (/\ ~FeedUnpacked[inj'.last].raised
           /\ FeedUnpacked[inj'.last].good
           /\ IF FeedUnpacked[inj'.last].pkt.flags = FLAG_ACK
              THEN DeclaredLength(inj'.last) # 0
              ELSE DeclaredLength(inj'.last) > MAX_PAYLOAD)
            => /\ UNCHANGED sessVars
               /\ UNCHANGED net
               /\ inj'.out = <<>>]_vars

-----------------------------------------------------------------------------
(* recv_available() on the receiver fed with datagrams                      *)

\* C26: recv_available() can always be called; a call returns the chunks of app_queue
\* joined in queue order, leaves app_queue empty and leaves expected, recv_buf,
\* next_seq, sent and acked alone; what the calls returned so far, followed by what
\* is queued, is the delivered chunks once each, in order
C26_RecvAvailableFrame ==
  /\ [][(app'["s"].got # app["s"].got \/ (app_queue["s"] # <<>> /\ app_queue'["s"] = <<>>))
          => /\ app'["s"].got = app["s"].got \o Join(app_queue["s"])
             /\ app_queue'["s"] = <<>>
             /\ UNCHANGED <<expected, recv_buf, next_seq, sent, acked>>]_vars
  /\ [](/\ ENABLED RecvAvailable("s")
        /\ app["s"].got \o Join(app_queue["s"])
             = DeliveredBytes("s"))

\* a call returned the chunk of seq 0; seq 1 is queued for the next call and seq 2
\* is still missing
C26_Witness ==
  /\ app["s"].got # <<>>
  /\ Len(app_queue["s"]) = 1
  /\ expected["s"] = 2

-----------------------------------------------------------------------------
(* sendto raises: the session on a socket whose sendto fails at most        *)
(* MaxFail times, over a channel that delivers what was sent                *)

\* the window wait of send() when sendto raises: the exception is logged, nothing
\* leaves, and send() goes on to record the packet
SendWaitFails(p) ==
  /\ snd[p].pc = "wait"
  /\ WindowOpen(p)
  /\ inj.errs < MaxFail
  /\ snd' = [snd EXCEPT ![p].seq = next_seq[p], ![p].pc = "record",
                        ![p].pkt_bytes = Wire(next_seq[p], FALSE, Chunk(p))]
  /\ next_seq' = [next_seq EXCEPT ![p] = @ + 1]
  /\ log' = [log EXCEPT ![p].tx = @ \cup {next_seq[p]}]
  /\ inj' = [inj EXCEPT !.errs = @ + 1, !.tx_err = @ \cup {next_seq[p]}]
  /\ UNCHANGED <<sent, acked, expected, recv_buf, app_queue, rtx, net, app, codec, emu>>

\* a variant of RetxOneFails where the exception ends the loop
RetxOneFailsEnds(p) ==
  /\ rtx[p].to_retx # <<>>
  /\ rtx[p].hold = <<>>
  /\ Head(rtx[p].to_retx) \in DOMAIN sent[p]
  /\ inj.errs < MaxFail
  /\ sent' = [sent EXCEPT ![p][Head(rtx[p].to_retx)].due = FALSE]
  /\ rtx' = [rtx EXCEPT ![p].to_retx = <<>>, ![p].alive = FALSE]
  /\ inj' = [inj EXCEPT !.errs = @ + 1, !.retx_err = @ \cup {Head(rtx[p].to_retx)}]
  /\ UNCHANGED <<next_seq, acked, expected, recv_buf, app_queue, snd, net, app, log, codec, emu>>

\* a turn of "for seq in to_retx" when sendto raises OSError: the time of the entry
\* was set anew, nothing leaves; the loop returns if stop() was called and goes on
\* with the next seq otherwise
RetxOneFails(p) ==
  /\ rtx[p].to_retx # <<>>
  /\ rtx[p].hold = <<>>
  /\ Head(rtx[p].to_retx) \in DOMAIN sent[p]
  /\ inj.errs < MaxFail
  /\ sent' = [sent EXCEPT ![p][Head(rtx[p].to_retx)].due = FALSE]
  /\ rtx' = IF rtx[p].running
            THEN [rtx EXCEPT ![p].to_retx = Tail(@)]
            ELSE [rtx EXCEPT ![p].to_retx = <<>>, ![p].alive = FALSE]
  /\ inj' = [inj EXCEPT !.errs = @ + 1, !.retx_err = @ \cup {Head(rtx[p].to_retx)}]
  /\ UNCHANGED <<next_seq, acked, expected, recv_buf, app_queue, snd, net, app, log, codec, emu>>

NextFail ==
  \/ \E n \in {1, MAX_PAYLOAD + 1} : ClientSendOnce(n)
  \/ SendWait("c")
  \/ SendWaitFails("c")
  \/ SendRecord("c")
  \/ Tick
  \/ RetxScan("c")
  \/ RetxOne("c")
  \/ RetxOneFails("c")
  \/ \E p \in Peer : \E raw \in net[p] : Deliver(p, raw)

SpecFail == Init /\ [][NextFail]_vars /\ FairClient

\* C27: when the first sendto of a seq raises, send() still records sent[seq] with
\* the packet bytes and goes on to the next chunk; when the sendto of a retransmission
\* raises, the retx loop stays alive and goes on with the seqs left of its sweep; and
\* after any such failure the transfer still completes
C27_SendFailureSurvived ==
  /\ [][(snd["c"].pc = "record" /\ snd["c"].seq \in inj.tx_err /\ snd'["c"] # snd["c"])
          => LET s == snd["c"]
                 chunk == Slice(s.data, s.offset, s.offset + MAX_PAYLOAD)
             IN  /\ s.seq \in DOMAIN sent'["c"]
                 /\ sent'["c"][s.seq] = [pkt_bytes |-> Wire(s.seq, FALSE, chunk), due |-> FALSE]
                 /\ IF s.offset + MAX_PAYLOAD < Len(s.data)
                    THEN /\ snd'["c"].pc = "wait"
                         /\ snd'["c"].offset = s.offset + MAX_PAYLOAD
                    ELSE snd'["c"].pc = "idle"]_vars
  /\ [][(inj'.retx_err # inj.retx_err \/ (inj'.errs # inj.errs /\ inj'.tx_err = inj.tx_err))
          => /\ rtx'["c"].alive
             /\ rtx'["c"].to_retx = Tail(rtx["c"].to_retx)
             /\ DOMAIN sent'["c"] = DOMAIN sent["c"]
             /\ \A q \in DOMAIN sent["c"] : sent'["c"][q].pkt_bytes = sent["c"][q].pkt_bytes
             /\ UNCHANGED <<acked, next_seq, snd>>]_vars
  /\ (inj.errs > 0) ~> SendDone

\* the first sendto of seq 0 raised, so did the sendto of its first retransmission,
\* and both chunks of the send() are with the receiver
C27_Witness ==
  /\ inj.tx_err = {0}
  /\ inj.retx_err = {0}
  /\ Len(app["c"].passed) = MAX_PAYLOAD + 1
  /\ SendDone

-----------------------------------------------------------------------------
(* emulator.py: emulator_loop.  Time is in ticks of 50 ms.  emu.calls holds *)
(* the sendto calls of the last step, emu.rd what that step read and the    *)
(* outcomes of the random trials it made, emu.seen the source of the last   *)
(* datagram read on sock_a: of any length (any) and non-empty (full).       *)

\* a variant of EmuDue that lets the held datagram go at the next wake
EmuDueAtOnce(now) == emu.reorder_slot # <<>>

\* "reorder_slot and now >= reorder_slot[4]"

EmuDue(now) == emu.reorder_slot # <<>> /\ now >= emu.reorder_slot[1].release_time

\* the top of the loop: select returns rl after dt ticks (after the whole timeout if
\* no socket is readable), now = time.monotonic(), and the held datagram is sent if
\* it is due
EmuWake(dt, rl) ==
  /\ emu.rlist = <<>>
  /\ emu.now + dt <= MaxEmuTime
  /\ rl = <<>> => dt = SelectTicks
  /\ emu' = [emu EXCEPT
               !.now = @ + dt,
               !.rlist = rl,
               !.calls = IF EmuDue(emu.now + dt)
                         THEN <<[sock |-> emu.reorder_slot[1].sock,
                                 addr |-> emu.reorder_slot[1].addr,
                                 data |-> emu.reorder_slot[1].pkt]>>
                         ELSE <<>>,
               !.reorder_slot = IF EmuDue(emu.now + dt) THEN <<>> ELSE @,
               !.rd = [kind |-> "wake"]]
  /\ UNCHANGED <<sessVars, snd, rtx, net, app, log, inj, codec>>

\* a variant of EmuLast that keeps the first client it saw
EmuLastKeepsFirst(s, src) == IF s = "a" /\ emu.last_client = "None" THEN src ELSE emu.last_client

\* last_client after a non-empty datagram from src was read on socket s

EmuLast(s, src) == IF s = "a" THEN src ELSE emu.last_client

\* a variant of EmuCalls that forwards a datagram it holds
EmuCallsAndHolds(dup, hold, call) == (IF dup THEN <<call>> ELSE <<>>) \o <<call>>

\* the sendto calls of one datagram that was not dropped: the extra copy if the

\* duplicate trial succeeded, the normal forward unless the datagram is held
EmuCalls(dup, hold, call) ==
  (IF dup THEN <<call>> ELSE <<>>) \o (IF hold THEN <<>> ELSE <<call>>)

\* one turn of "for s in rlist": recvfrom gives (data, src) or raises (~got); then
\* the routing and the trials for loss, corruption (flip: the byte, -1 for none),
\* duplication and reordering (the hold lasts `delay`).  A trial that is not
\* reached is not made.
EmuRead(got, data, src, loss, flip, dup, reorder, delay) ==
  /\ emu.rlist # <<>>
  /\ LET s        == Head(emu.rlist)
         read     == got /\ data # <<>>
         routable == read /\ (s = "a" \/ emu.last_client # "None")
         through  == routable /\ ~loss
         last     == IF read THEN EmuLast(s, src) ELSE emu.last_client
         pkt      == IF flip >= 0 THEN corrupt(data, flip) ELSE data
         hold     == emu.reorder_slot = <<>> /\ reorder
         call     == [sock |-> IF s = "a" THEN "b" ELSE "a",
                      addr |-> IF s = "a" THEN "server" ELSE last,
                      data |-> pkt]
     IN  /\ ~got => data = <<>>
         /\ s = "b" => src = "server"
         /\ s = "a" => src # "server"
         /\ ~routable => ~loss
         /\ ~through => (flip = -1 /\ ~dup /\ ~reorder)
         /\ flip < Len(data)
         /\ (~through \/ emu.reorder_slot # <<>>) => ~reorder
         /\ ~reorder => delay = MinDelay
         /\ emu' = [emu EXCEPT
                      !.rlist = Tail(@),
                      !.last_client = last,
                      !.calls = IF through THEN EmuCalls(dup, hold, call) ELSE <<>>,
                      !.reorder_slot = IF through /\ hold
                                       THEN <<[pkt |-> pkt, sock |-> call.sock, addr |-> call.addr,
                                               release_time |-> emu.now + delay]>>
                                       ELSE @,
                      !.rd = [kind |-> "read", sock |-> s, got |-> got, data |-> data,
                              src |-> src, loss |-> loss, flip |-> flip, dup |-> dup],
                      !.seen = IF got /\ s = "a"
                               THEN [any |-> src, full |-> IF data # <<>> THEN src ELSE @.full]
                               ELSE @]
  /\ UNCHANGED <<sessVars, snd, rtx, net, app, log, inj, codec>>

NextEmu ==
  \/ \E dt \in 0..SelectTicks : \E rl \in {<<>>, <<"a">>, <<"b">>, <<"a", "b">>} : EmuWake(dt, rl)
  \/ \E got, loss, dup, reorder \in BOOLEAN :
       \E data \in {<<>>, AckBytes(0)} : \E src \in {"c1", "c2", "server"} :
         \E flip \in {-1, 0, HEADER_SIZE - 1} : \E delay \in {MinDelay, MaxDelay} :
           EmuRead(got, data, src, loss, flip, dup, reorder, delay)

SpecEmu == Init /\ [][NextEmu]_vars


\* the datagram the last step read went through the routing: it was not empty and
\* had a destination
EmuRouted ==
  /\ emu'.rd.kind = "read"
  /\ emu'.rd.got
  /\ emu'.rd.data # <<>>
  /\ (emu'.rd.sock = "a" \/ emu.last_client # "None")

\* C28: a routable non-empty datagram that the loss trial takes causes no sendto and
\* leaves reorder_slot alone.  Any other is either forwarded now, with reorder_slot
\* left alone, or put in the empty reorder_slot and not forwarded, never both; there
\* is one more sendto, before the forward, exactly if the duplicate trial succeeded;
\* every sendto and the slot carry the bytes after the corruption stage and the
\* destination of the routing; with reorder_slot occupied the datagram is forwarded
\* now and the held one stays
C28_Pipeline ==
  [][EmuRouted =>
       LET r    == emu'.rd
           pkt  == IF r.flip >= 0 THEN corrupt(r.data, r.flip) ELSE r.data
           call == [sock |-> IF r.sock = "a" THEN "b" ELSE "a",
                    addr |-> IF r.sock = "a" THEN "server" ELSE emu.last_client,
                    data |-> pkt]
           held == <<[pkt |-> pkt, sock |-> call.sock, addr |-> call.addr,
                      release_time |-> emu'.reorder_slot[1].release_time]>>
       IN  IF r.loss
           THEN emu'.calls = <<>> /\ emu'.reorder_slot = emu.reorder_slot
           ELSE /\ \A i \in 1..Len(emu'.calls) : emu'.calls[i] = call
                /\ \/ /\ emu'.reorder_slot = emu.reorder_slot
                      /\ Len(emu'.calls) = IF r.dup THEN 2 ELSE 1
                   \/ /\ emu.reorder_slot = <<>>
                      /\ emu'.reorder_slot # <<>>
                      /\ emu'.reorder_slot = held
                      /\ Len(emu'.calls) = IF r.dup THEN 1 ELSE 0
                /\ (r.flip >= 0) => pkt # r.data]_vars

\* a reply of the server was corrupted, duplicated and forwarded to the client while
\* a datagram of the client was held in reorder_slot
C28_Witness ==
  /\ emu.rd.kind = "read"
  /\ emu.rd.sock = "b"
  /\ emu.rd.flip >= 0
  /\ Len(emu.calls) = 2
  /\ emu.calls[1].addr = "c2"
  /\ emu.reorder_slot # <<>>
  /\ emu.reorder_slot[1].addr = "server"


\* C29: the held datagram is sent only by a wake of the loop whose now is at or past
\* its release_time, and by the first such wake: as the one sendto of the wake,
\* before any datagram is read, to the socket and address it was held with, and
\* reorder_slot is empty after it; no other step sends it or takes it out of the
\* slot, and a datagram in the slot after a wake is not yet due
C29_Release ==
  /\ [][emu.reorder_slot # <<>> =>
          LET slot == emu.reorder_slot[1]
          IN  IF emu'.rd.kind = "wake" /\ emu'.now >= slot.release_time
              THEN /\ emu'.calls = <<[sock |-> slot.sock, addr |-> slot.addr, data |-> slot.pkt]>>
                   /\ emu'.reorder_slot = <<>>
                   /\ emu.rlist = <<>>
              ELSE /\ emu'.reorder_slot = emu.reorder_slot
                   /\ emu'.rd.kind = "wake" => emu'.calls = <<>>]_vars
  /\ [](emu.reorder_slot # <<>> => emu.reorder_slot[1].release_time > emu.now)

\* a reply of the server held for c1 for MaxDelay ticks was released to c1 by this
\* wake, after a datagram of c2 had made c2 the last client
C29_Witness ==
  /\ emu.rd.kind = "wake"
  /\ emu.calls # <<>>
  /\ emu.calls[1].sock = "a"
  /\ emu.calls[1].addr = "c1"
  /\ emu.last_client = "c2"
  /\ emu.reorder_slot = <<>>
  /\ emu.now >= MaxDelay


\* where the sendto calls of the last step and a datagram it put in reorder_slot go
EmuDestinations ==
  {<<emu'.calls[i].sock, emu'.calls[i].addr>> : i \in 1..Len(emu'.calls)}
    \cup (IF emu'.reorder_slot # emu.reorder_slot /\ emu'.reorder_slot # <<>>
          THEN {<<emu'.reorder_slot[1].sock, emu'.reorder_slot[1].addr>>} ELSE {})

\* C30 as stated: every datagram read on sock_a makes its source last_client and goes
\* nowhere but to server_addr through sock_b; a datagram read on sock_b before any
\* was read on sock_a causes no sendto and changes last_client and reorder_slot not;
\* any other read on sock_b goes nowhere but through sock_a to the source of the last
\* datagram read on sock_a
C30_Routing ==
  [][(emu'.rd.kind = "read" /\ emu'.rd.got) =>
       IF emu'.rd.sock = "a"
       THEN /\ emu'.last_client = emu'.rd.src
            /\ EmuDestinations \subseteq {<<"b", "server">>}
       ELSE /\ emu'.last_client = emu.last_client
            /\ IF emu.seen.any = "None"
               THEN emu'.calls = <<>> /\ emu'.reorder_slot = emu.reorder_slot
               ELSE /\ EmuDestinations \subseteq {<<"a", emu.seen.any>>}
                    /\ (emu'.rd.data # <<>> /\ ~emu'.rd.loss) => EmuDestinations # {}]_vars

\* C30, amended: every non-empty datagram read on sock_a makes its source last_client
\* and goes nowhere but to server_addr through sock_b; an empty one is dropped and
\* changes nothing.  A datagram read on sock_b before any non-empty datagram was
\* read on sock_a causes no sendto and changes last_client and reorder_slot not; any
\* other non-empty one goes nowhere but through sock_a to the source of the last
\* non-empty datagram read on sock_a, and somewhere unless the loss trial takes it
C30_RoutingNonEmpty ==
  [][(emu'.rd.kind = "read" /\ emu'.rd.got) =>
       /\ emu.last_client = emu.seen.full
       /\ IF emu'.rd.data = <<>>
          THEN /\ emu'.calls = <<>>
               /\ emu'.last_client = emu.last_client
               /\ emu'.reorder_slot = emu.reorder_slot
          ELSE IF emu'.rd.sock = "a"
          THEN /\ emu'.last_client = emu'.rd.src
               /\ EmuDestinations \subseteq {<<"b", "server">>}
               /\ ~emu'.rd.loss => EmuDestinations # {}
          ELSE /\ emu'.last_client = emu.last_client
               /\ IF emu.seen.full = "None"
                  THEN emu'.calls = <<>> /\ emu'.reorder_slot = emu.reorder_slot
                  ELSE /\ EmuDestinations \subseteq {<<"a", emu.seen.full>>}
                       /\ ~emu'.rd.loss => EmuDestinations # {}]_vars

\* c1 sent a packet, then c2 an empty datagram; the reply of the server was forwarded
\* to c1
C30_Witness ==
  /\ emu.seen = [any |-> "c2", full |-> "c1"]
  /\ emu.rd.kind = "read"
  /\ emu.rd.sock = "b"
  /\ emu.calls # <<>>
  /\ emu.calls[1].addr = "c1"

-----------------------------------------------------------------------------
(* Two tasks inside send() of the client's session: the application task of *)
(* snd["c"] and a second one, whose locals are inj.task.                    *)

\* the second task calls send(data), once
SendCallTask(n) ==
  /\ inj.task.pc = "new"
  /\ inj' = [inj EXCEPT !.task = [pc |-> "wait", data |-> [i \in 1..n |-> StreamByte(100 + i)],
                                  offset |-> 0, seq |-> 0, pkt_bytes |-> <<>>]]
  /\ UNCHANGED <<sessVars, snd, rtx, net, app, log, codec, emu>>

\* one turn of the window wait of the second task, as SendWait
SendWaitTask(p) ==
  /\ inj.task.pc = "wait"
  /\ IF WindowOpen(p)
     THEN \E pkt_bytes \in {Wire(next_seq[p], FALSE,
                                 Slice(inj.task.data, inj.task.offset, inj.task.offset + MAX_PAYLOAD))} :
            /\ inj' = [inj EXCEPT !.task.seq = next_seq[p], !.task.pkt_bytes = pkt_bytes,
                                  !.task.pc = "record"]
            /\ next_seq' = [next_seq EXCEPT ![p] = @ + 1]
            /\ net' = [net EXCEPT ![Other(p)] = @ \cup {pkt_bytes}]
            /\ log' = [log EXCEPT ![p].tx = @ \cup {next_seq[p]}]
     ELSE UNCHANGED <<inj, next_seq, net, log>>
  /\ UNCHANGED <<sent, acked, expected, recv_buf, app_queue, snd, rtx, app, codec, emu>>

\* the second task records its packet, as SendRecord, and goes on or returns
SendRecordTask(p) ==
  /\ inj.task.pc = "record"
  /\ sent' = [sent EXCEPT ![p] = With(@, inj.task.seq,
                                      [pkt_bytes |-> inj.task.pkt_bytes, due |-> FALSE])]
  /\ inj' = [inj EXCEPT !.task =
               IF @.offset + MAX_PAYLOAD < Len(@.data)
               THEN [@ EXCEPT !.offset = @ + MAX_PAYLOAD, !.pc = "wait", !.seq = 0, !.pkt_bytes = <<>>]
               ELSE [pc |-> "idle", data |-> <<>>, offset |-> 0, seq |-> 0, pkt_bytes |-> <<>>]]
  /\ UNCHANGED <<next_seq, acked, expected, recv_buf, app_queue, snd, rtx, net, app, log, codec, emu>>

NextTwo ==
  \/ \E n \in {1, MAX_PAYLOAD + 1} : ClientSendOnce(n)
  \/ SendWait("c")
  \/ SendRecord("c")
  \/ \E n \in {1, MAX_PAYLOAD + 1} : SendCallTask(n)
  \/ SendWaitTask("c")
  \/ SendRecordTask("c")
  \/ \E p \in Peer : \E raw \in net[p] : Deliver(p, raw)

SpecTwo == Init /\ [][NextTwo]_vars

\* the seqs of the chunks the two tasks have taken: no seq is taken twice and none
\* is skipped
SeqsDistinct ==
  /\ log["c"].tx = 0..(next_seq["c"] - 1)
  /\ (snd["c"].pc = "record" /\ inj.task.pc = "record") => snd["c"].seq # inj.task.seq
  /\ \A q \in DOMAIN sent["c"] \cup acked["c"] : q < next_seq["c"]

\* C31: with two tasks inside send() of one session every chunk has a seq of its
\* own, none is skipped, and sent never holds more than window entries
C31_ConcurrentSend ==
  /\ SeqsDistinct
  /\ Cardinality(DOMAIN sent["c"]) <= Window

=============================================================================
